---- MODULE Spec2Model ----
(***************************************************************************)
(* flagrep: bounded decoder-composition search.                            *)
(*                                                                         *)
(* A Go string is modelled as a sequence of bytes (0..255).  Decoders are  *)
(* operators from a byte string to a result record                         *)
(*     [st |-> "ok" | "err" | "panic" | "unmodelled", out |-> bytes]       *)
(* "panic" is a Go run-time panic (slice bounds out of range), which ends  *)
(* the whole process.  "unmodelled" marks inputs on which a decoder's      *)
(* regular-expression path is not translated; the specifications below are *)
(* checked never to reach it (invariant AllModelled).                      *)
(***************************************************************************)
EXTENDS Integers, Sequences, FiniteSets, TLC

(***************************************************************************)
(* Byte-string helpers                                                     *)
(***************************************************************************)

\* Go s[a:b] with 0-based half-open bounds
Slice(s, a, b) == SubSeq(s, a + 1, b)

Max2(a, b) == IF a >= b THEN a ELSE b

Min2(a, b) == IF a <= b THEN a ELSE b

RECURSIVE Flatten(_)
Flatten(ss) == IF ss = << >> THEN << >> ELSE Head(ss) \o Flatten(Tail(ss))

Count(s, P(_)) == Cardinality({i \in 1..Len(s) : P(s[i])})

IsLower(b) == b >= 97 /\ b <= 122

IsUpper(b) == b >= 65 /\ b <= 90

IsDigit(b) == b >= 48 /\ b <= 57

IsHexDigit(b) == IsDigit(b) \/ (b >= 97 /\ b <= 102) \/ (b >= 65 /\ b <= 70)

IsOctDigit(b) == b >= 48 /\ b <= 55

HexVal(b) == IF IsDigit(b) THEN b - 48 ELSE IF b >= 97 THEN b - 87 ELSE b - 55

\* "(b >= 32 && b <= 126) || b == '\n' || b == '\r' || b == '\t'"
IsPrintable(b) == (b >= 32 /\ b <= 126) \/ b = 10 \/ b = 13 \/ b = 9

\* float64(printable)/float64(len(data)) >= 0.7, as exact integer arithmetic
isPrintableBytes(data) ==
    /\ Len(data) # 0
    /\ 10 * Count(data, IsPrintable) >= 7 * Len(data)

\* unicode.IsSpace restricted to one-byte runes: '\t' '\n' '\v' '\f' '\r' ' '
IsAsciiSpace(b) == b \in {9, 10, 11, 12, 13, 32}

\* RE2 \s: [\t\n\f\r ]
IsReSpace(b) == b \in {9, 10, 12, 13, 32}

\* RE2 \w, which decides the ASCII word boundary \b
IsWordByte(b) == IsLower(b) \/ IsUpper(b) \/ IsDigit(b) \/ b = 95

IsAscii(s) == \A i \in 1..Len(s) : s[i] < 128

\* lead bytes of the UTF-8 encodings of the multi-byte Unicode spaces
\* (U+0085, U+00A0, U+1680, U+2000..U+200A, U+2028, U+2029, U+202F, U+205F, U+3000)
HasUnicodeSpaceLead(s) == \E i \in 1..Len(s) : s[i] \in {194, 225, 226, 227}

(***************************************************************************)
(* UTF-8: Go's "for _, r := range s", []rune(s), string(runes), WriteRune  *)
(***************************************************************************)

RuneError == 65533

IsCont(b) == b >= 128 /\ b <= 191

\* the rune starting at 1-based position i of s and its width in bytes;
\* an invalid or truncated encoding yields RuneError with width 1
DecodeRune(s, i) ==
    LET b0 == s[i]
        n  == Len(s)
        lo == IF b0 = 224 THEN 160 ELSE IF b0 = 240 THEN 144 ELSE 128
        hi == IF b0 = 237 THEN 159 ELSE IF b0 = 244 THEN 143 ELSE 191
    IN  IF b0 < 128 THEN [r |-> b0, w |-> 1]
        ELSE IF b0 >= 194 /\ b0 <= 223 /\ i + 1 <= n /\ IsCont(s[i + 1])
        THEN [r |-> (b0 - 192) * 64 + (s[i + 1] - 128), w |-> 2]
        ELSE IF b0 >= 224 /\ b0 <= 239 /\ i + 2 <= n
                /\ s[i + 1] >= lo /\ s[i + 1] <= hi /\ IsCont(s[i + 2])
        THEN [r |-> (b0 - 224) * 4096 + (s[i + 1] - 128) * 64 + (s[i + 2] - 128),
              w |-> 3]
        ELSE IF b0 >= 240 /\ b0 <= 244 /\ i + 3 <= n
                /\ s[i + 1] >= lo /\ s[i + 1] <= hi
                /\ IsCont(s[i + 2]) /\ IsCont(s[i + 3])
        THEN [r |-> (b0 - 240) * 262144 + (s[i + 1] - 128) * 4096
                      + (s[i + 2] - 128) * 64 + (s[i + 3] - 128),
              w |-> 4]
        ELSE [r |-> RuneError, w |-> 1]

RECURSIVE RunesFrom(_, _)
RunesFrom(s, i) ==
    IF i > Len(s) THEN << >>
    ELSE LET d == DecodeRune(s, i) IN << d.r >> \o RunesFrom(s, i + d.w)

\* []rune(s)
Runes(s) == RunesFrom(s, 1)

\* utf8.AppendRune: surrogates and out-of-range values encode as U+FFFD
EncodeRune(r) ==
    IF r >= 0 /\ r < 128 THEN << r >>
    ELSE IF r >= 128 /\ r < 2048 THEN << 192 + (r \div 64), 128 + (r % 64) >>
    ELSE IF r < 0 \/ r > 1114111 \/ (r >= 55296 /\ r <= 57343)
    THEN << 239, 191, 189 >>
    ELSE IF r < 65536
    THEN << 224 + (r \div 4096), 128 + ((r \div 64) % 64), 128 + (r % 64) >>
    ELSE << 240 + (r \div 262144), 128 + ((r \div 4096) % 64),
            128 + ((r \div 64) % 64), 128 + (r % 64) >>

\* string(runes)
RunesToString(rs) == Flatten([i \in 1..Len(rs) |-> EncodeRune(rs[i])])

\* a strings.Builder loop "for _, r := range input { WriteRune(F(r)) }"
MapRunes(s, F(_)) ==
    LET rs == Runes(s) IN Flatten([i \in 1..Len(rs) |-> EncodeRune(F(rs[i]))])

Ok(out) == [st |-> "ok", out |-> out]

Err == [st |-> "err", out |-> << >>]

Panic == [st |-> "panic", out |-> << >>]

Unmodelled == [st |-> "unmodelled", out |-> << >>]

(***************************************************************************)
(* Decoders that work rune by rune or byte by byte                         *)
(***************************************************************************)

RECURSIVE Reverse(_)
Reverse(s) == IF s = << >> THEN << >> ELSE Reverse(Tail(s)) \o << Head(s) >>

reverseDecoder(input) == Ok(RunesToString(Reverse(Runes(input))))

NotSpace(b) == b # 32

spaceRemovalDecoder(input) == Ok(SelectSeq(input, NotSpace))

\* a rotation that adds 13 to every letter
Rot13RuneUp(r) == IF IsLower(r) \/ IsUpper(r) THEN r + 13 ELSE r

Rot13Rune(r) ==
    IF IsLower(r) THEN (IF r >= 97 + 13 THEN r - 13 ELSE r + 13)
    ELSE IF IsUpper(r) THEN (IF r >= 65 + 13 THEN r - 13 ELSE r + 13)
    ELSE r

rot13Decoder(input) == Ok(MapRunes(input, Rot13Rune))

Rot47Rune(r) == IF r >= 33 /\ r <= 126 THEN 33 + ((r + 14) % 94) ELSE r

rot47Decoder(input) == Ok(MapRunes(input, Rot47Rune))

AtbashRune(r) ==
    IF IsLower(r) THEN 122 - (r - 97)
    ELSE IF IsUpper(r) THEN 90 - (r - 65)
    ELSE r

atbashDecoder(input) == Ok(MapRunes(input, AtbashRune))

CaesarShift(input, shift) ==
    LET F(r) == IF IsLower(r) THEN 97 + ((r - 97 + shift) % 26)
                ELSE IF IsUpper(r) THEN 65 + ((r - 65 + shift) % 26)
                ELSE r
    IN  MapRunes(input, F)

HasLetters(input) ==
    LET rs == Runes(input) IN \E i \in 1..Len(rs) : IsLower(rs[i]) \/ IsUpper(rs[i])

\* the loop "for shift := 1; shift < 26; shift++", entered at shift
RECURSIVE CaesarFrom(_, _)
CaesarFrom(input, shift) ==
    IF shift >= 26 THEN Err
    ELSE IF shift = 13 THEN CaesarFrom(input, shift + 1)
    ELSE IF ~HasLetters(input) THEN Err
    ELSE LET decoded == CaesarShift(input, shift)
         IN  IF decoded # input THEN Ok(decoded) ELSE CaesarFrom(input, shift + 1)

caesarBruteForceDecoder(input) == CaesarFrom(input, 1)

\* bitwise exclusive or of two bytes
RECURSIVE XorBits(_, _, _)
XorBits(a, b, n) ==
    IF n = 0 THEN 0
    ELSE ((a + b) % 2) + 2 * XorBits(a \div 2, b \div 2, n - 1)

Xor(a, b) == XorBits(a, b, 8)

XorWith(data, key) == [i \in 1..Len(data) |-> Xor(data[i], key)]

\* a key is accepted when half of the bytes are printable
XorAcceptsHalf(decoded) == 2 * Count(decoded, IsPrintable) >= Len(decoded)

\* float64(printable)/float64(len(decoded)) >= 0.8
XorAccepts(decoded) == 5 * Count(decoded, IsPrintable) >= 4 * Len(decoded)

\* the loop "for key := byte(1); key != 0; key++", entered at key: the byte
\* counter takes the values key..255 in ascending order and wraps to 0, which
\* ends the loop; the first accepted key returns
XorFrom(data, key) ==
    LET accepted == {k \in key..255 : XorAccepts(XorWith(data, k))}
    IN  IF accepted = {} THEN Err
        ELSE Ok(XorWith(data, CHOOSE k \in accepted : \A j \in accepted : k <= j))

xorBruteForceDecoder(input) == IF Len(input) = 0 THEN Err ELSE XorFrom(input, 1)

(***************************************************************************)
(* base85                                                                  *)
(***************************************************************************)

RECURSIVE TrimLeftAscii(_)
TrimLeftAscii(s) ==
    IF s # << >> /\ IsAsciiSpace(Head(s)) THEN TrimLeftAscii(Tail(s)) ELSE s

RECURSIVE TrimRightAscii(_)
TrimRightAscii(s) ==
    IF s # << >> /\ IsAsciiSpace(s[Len(s)])
    THEN TrimRightAscii(SubSeq(s, 1, Len(s) - 1))
    ELSE s

\* strings.TrimSpace on a string whose first and last runes after the ASCII
\* trim are not multi-byte Unicode spaces (TrimSpaceModelled)
TrimSpace(s) == TrimRightAscii(TrimLeftAscii(s))

TrimSpaceModelled(s) ==
    LET t == TrimSpace(s)
    IN  t = << >> \/ ~HasUnicodeSpaceLead(t) \/ (t[1] < 128 /\ t[Len(t)] < 128)

HasPrefix(s, p) == Len(s) >= Len(p) /\ SubSeq(s, 1, Len(p)) = p

HasSuffix(s, p) == Len(s) >= Len(p) /\ SubSeq(s, Len(s) - Len(p) + 1, Len(s)) = p

\* strings.ReplaceAll(s, "z", "!!!!!")
ExpandZ(s) ==
    Flatten([i \in 1..Len(s) |->
                IF s[i] = 122 THEN << 33, 33, 33, 33, 33 >> ELSE << s[i] >>])

Base85Blank(b) == b \in {32, 10, 13, 9}

Base85CharOk(b) == (b >= 33 /\ b <= 117) \/ Base85Blank(b)

NotBase85Blank(b) == ~Base85Blank(b)

\* "value = value*85 + uint32(c-'!')" over the five characters; the uint32 is
\* kept as its two 16-bit halves, so the product wraps modulo 2^32
RECURSIVE Base85Value(_, _)
Base85Value(padded, value) ==
    IF padded = << >> THEN value
    ELSE LET lo == value.lo * 85 + (Head(padded) - 33)
             hi == value.hi * 85 + (lo \div 65536)
         IN  Base85Value(Tail(padded), [hi |-> hi % 65536, lo |-> lo % 65536])

\* the loop "for len(s) > 0" over chunks of at most five characters
RECURSIVE Base85Chunks(_)
Base85Chunks(s) ==
    IF s = << >> THEN << >>
    ELSE LET chunkLen == Min2(5, Len(s))
             padded   == SubSeq(s, 1, chunkLen) \o [i \in 1..(5 - chunkLen) |-> 117]
             value    == Base85Value(padded, [hi |-> 0, lo |-> 0])
             numBytes == Min2(4, Max2(1, chunkLen - 1))
             decoded  == << value.hi \div 256, value.hi % 256,
                            value.lo \div 256, value.lo % 256 >>
         IN  SubSeq(decoded, 1, numBytes)
                 \o Base85Chunks(SubSeq(s, chunkLen + 1, Len(s)))

\* the slice expression s[2 : len(s)-2] panics when 2 > len(s)-2
Base85Unframe(s) ==
    IF HasPrefix(s, << 60, 126 >>) /\ HasSuffix(s, << 126, 62 >>)
    THEN (IF 2 > Len(s) - 2 THEN Panic ELSE Ok(Slice(s, 2, Len(s) - 2)))
    ELSE Ok(s)

Base85Body(framed) ==
    LET s == ExpandZ(framed)
    IN  IF Len(s) = 0 THEN Err
        ELSE IF \E i \in 1..Len(s) : ~Base85CharOk(s[i]) THEN Err
        ELSE LET clean == SelectSeq(s, NotBase85Blank)
             IN  IF Len(clean) = 0 THEN Err
                 ELSE LET result == Base85Chunks(clean)
                      IN  IF Len(result) = 0 THEN Err
                          ELSE IF 2 * Count(result, IsPrintable) < Len(result) THEN Err
                          ELSE Ok(result)

base85Decoder(input) ==
    IF ~TrimSpaceModelled(input) THEN Unmodelled
    ELSE LET u == Base85Unframe(TrimSpace(input))
         IN  IF u.st = "panic" THEN Panic ELSE Base85Body(u.out)

(***************************************************************************)
(* url, html, unicode_escape                                               *)
(***************************************************************************)

\* url.QueryUnescape, first pass: every '%' is followed by two hex digits
UrlWellFormed(s) ==
    \A i \in 1..Len(s) :
        s[i] = 37 => (i + 2 <= Len(s) /\ IsHexDigit(s[i + 1]) /\ IsHexDigit(s[i + 2]))

\* second pass, entered at 1-based position i
RECURSIVE UrlFrom(_, _)
UrlFrom(s, i) ==
    IF i > Len(s) THEN << >>
    ELSE IF s[i] = 37
    THEN << 16 * HexVal(s[i + 1]) + HexVal(s[i + 2]) >> \o UrlFrom(s, i + 3)
    ELSE IF s[i] = 43 THEN << 32 >> \o UrlFrom(s, i + 1)
    ELSE << s[i] >> \o UrlFrom(s, i + 1)

urlDecoder(input) == IF UrlWellFormed(input) THEN Ok(UrlFrom(input, 1)) ELSE Err

\* html.UnescapeString copies a '&' that is followed by neither '#' nor a letter
\* or digit; entity lookup itself is not translated
htmlEntityDecoder(input) ==
    IF \E i \in 1..(Len(input) - 1) :
           /\ input[i] = 38
           /\ (input[i + 1] = 35 \/ IsLower(input[i + 1]) \/ IsUpper(input[i + 1])
                   \/ IsDigit(input[i + 1]))
    THEN Unmodelled
    ELSE Ok(input)

AllHex(s, from, n) == from + n - 1 <= Len(s) /\ \A k \in from..(from + n - 1) : IsHexDigit(s[k])

RECURSIVE HexNumber(_, _)
HexNumber(s, acc) == IF s = << >> THEN acc ELSE HexNumber(Tail(s), 16 * acc + HexVal(Head(s)))

\* ReplaceAllStringFunc of `\\<letter>([0-9a-fA-F]{digits})` by string(rune(code))
RECURSIVE ReplaceEscapes(_, _, _, _)
ReplaceEscapes(s, i, letter, digits) ==
    IF i > Len(s) THEN << >>
    ELSE IF s[i] = 92 /\ i + 1 <= Len(s) /\ s[i + 1] = letter /\ AllHex(s, i + 2, digits)
    THEN EncodeRune(HexNumber(SubSeq(s, i + 2, i + 1 + digits), 0))
             \o ReplaceEscapes(s, i + 2 + digits, letter, digits)
    ELSE << s[i] >> \o ReplaceEscapes(s, i + 1, letter, digits)

unicodeEscapeDecoder(input) ==
    LET result == ReplaceEscapes(ReplaceEscapes(input, 1, 117, 4), 1, 120, 2)
    IN  IF result = input THEN Err ELSE Ok(result)

(***************************************************************************)
(* Runs of bytes, as the regular expressions of the decoders find them     *)
(***************************************************************************)

\* last 1-based index of the run of TRUE that contains index i of mask
RECURSIVE RunEnd(_, _)
RunEnd(mask, i) == IF i < Len(mask) /\ mask[i + 1] THEN RunEnd(mask, i + 1) ELSE i

\* the maximal runs of TRUE in mask from index i on, as Go offsets [a, b)
RECURSIVE MaskRuns(_, _)
MaskRuns(mask, i) ==
    IF i > Len(mask) THEN << >>
    ELSE IF ~mask[i] THEN MaskRuns(mask, i + 1)
    ELSE LET e == RunEnd(mask, i)
         IN  << [a |-> i - 1, b |-> e] >> \o MaskRuns(mask, e + 1)

RunLen(r) == r.b - r.a

AtLeast6(r) == RunLen(r) >= 6

AtLeast8(r) == RunLen(r) >= 8

AtLeast16(r) == RunLen(r) >= 16

\* strings.Fields on a string without multi-byte Unicode spaces
Fields(s) ==
    LET mask == [i \in 1..Len(s) |-> ~IsAsciiSpace(s[i])]
        runs == MaskRuns(mask, 1)
    IN  [k \in 1..Len(runs) |-> Slice(s, runs[k].a, runs[k].b)]

(***************************************************************************)
(* morse                                                                   *)
(***************************************************************************)

morseToChar ==
    { << << 46, 45 >>, 65 >>,
      << << 45, 46, 46, 46 >>, 66 >>,
      << << 45, 46, 45, 46 >>, 67 >>,
      << << 45, 46, 46 >>, 68 >>,
      << << 46 >>, 69 >>,
      << << 46, 46, 45, 46 >>, 70 >>,
      << << 45, 45, 46 >>, 71 >>,
      << << 46, 46, 46, 46 >>, 72 >>,
      << << 46, 46 >>, 73 >>,
      << << 46, 45, 45, 45 >>, 74 >>,
      << << 45, 46, 45 >>, 75 >>,
      << << 46, 45, 46, 46 >>, 76 >>,
      << << 45, 45 >>, 77 >>,
      << << 45, 46 >>, 78 >>,
      << << 45, 45, 45 >>, 79 >>,
      << << 46, 45, 45, 46 >>, 80 >>,
      << << 45, 45, 46, 45 >>, 81 >>,
      << << 46, 45, 46 >>, 82 >>,
      << << 46, 46, 46 >>, 83 >>,
      << << 45 >>, 84 >>,
      << << 46, 46, 45 >>, 85 >>,
      << << 46, 46, 46, 45 >>, 86 >>,
      << << 46, 45, 45 >>, 87 >>,
      << << 45, 46, 46, 45 >>, 88 >>,
      << << 45, 46, 45, 45 >>, 89 >>,
      << << 45, 45, 46, 46 >>, 90 >>,
      << << 45, 45, 45, 45, 45 >>, 48 >>,
      << << 46, 45, 45, 45, 45 >>, 49 >>,
      << << 46, 46, 45, 45, 45 >>, 50 >>,
      << << 46, 46, 46, 45, 45 >>, 51 >>,
      << << 46, 46, 46, 46, 45 >>, 52 >>,
      << << 46, 46, 46, 46, 46 >>, 53 >>,
      << << 45, 46, 46, 46, 46 >>, 54 >>,
      << << 45, 45, 46, 46, 46 >>, 55 >>,
      << << 45, 45, 45, 46, 46 >>, 56 >>,
      << << 45, 45, 45, 45, 46 >>, 57 >>,
      << << 46, 45, 46, 45, 46, 45 >>, 46 >>,
      << << 45, 45, 46, 46, 45, 45 >>, 44 >>,
      << << 46, 46, 45, 45, 46, 46 >>, 63 >> }

\* regexp `\s{3,}|/` Split(input, -1): the pieces from position i on, cur being
\* the piece under construction
RECURSIVE MorseSplit(_, _, _)
MorseSplit(s, i, cur) ==
    IF i > Len(s) THEN << cur >>
    ELSE LET mask == [k \in 1..Len(s) |-> IsReSpace(s[k])]
             e    == RunEnd(mask, i)
         IN  IF mask[i] /\ e - i + 1 >= 3 THEN << cur >> \o MorseSplit(s, e + 1, << >>)
             ELSE IF s[i] = 47 THEN << cur >> \o MorseSplit(s, i + 1, << >>)
             ELSE MorseSplit(s, i + 1, Append(cur, s[i]))

MorseLetters(word) ==
    LET letters == Fields(word)
    IN  Flatten([k \in 1..Len(letters) |->
                    IF \E e \in morseToChar : e[1] = letters[k]
                    THEN << (CHOOSE e \in morseToChar : e[1] = letters[k])[2] >>
                    ELSE << >>])

morseDecoder(input) ==
    IF HasUnicodeSpaceLead(input) THEN Unmodelled
    ELSE LET words   == MorseSplit(input, 1, << >>)
             decoded == Flatten([i \in 1..Len(words) |->
                            (IF i > 1 THEN << 32 >> ELSE << >>) \o MorseLetters(words[i])])
         IN  IF decoded = << >> THEN Err ELSE Ok(decoded)

(***************************************************************************)
(* binary                                                                  *)
(***************************************************************************)

IsBinDigit(b) == b = 48 \/ b = 49

RECURSIVE BinNumber(_, _)
BinNumber(s, acc) == IF s = << >> THEN acc ELSE BinNumber(Tail(s), 2 * acc + (Head(s) - 48))

\* the bytes of a string of binary digits whose length is a multiple of 8
BinBytes(s) == [k \in 1..(Len(s) \div 8) |-> BinNumber(SubSeq(s, 8 * k - 7, 8 * k), 0) % 256]

NotBinaryBlank(b) == b \notin {32, 10, 13}

\* the loop "for i := len(matches) - 1; i >= 0; i--" of the embedded-run path
RECURSIVE BinaryApply(_, _, _, _, _)
BinaryApply(input, matches, k, result, anyDecoded) ==
    IF k = 0 THEN (IF anyDecoded THEN Ok(result) ELSE Err)
    ELSE LET start    == matches[k].a
             end      == matches[k].b
             truncLen == ((end - start) \div 8) * 8
             bytes    == BinBytes(Slice(input, start, start + truncLen))
         IN  IF truncLen < 8 \/ ~isPrintableBytes(bytes)
             THEN BinaryApply(input, matches, k - 1, result, anyDecoded)
             ELSE BinaryApply(input, matches, k - 1,
                      Slice(result, 0, start) \o bytes
                          \o Slice(result, start + truncLen, Len(result)),
                      TRUE)

binaryDecoder(input) ==
    LET clean   == SelectSeq(input, NotBinaryBlank)
        whole   == Len(clean) % 8 = 0 /\ Len(clean) > 0
                       /\ \A i \in 1..Len(clean) : IsBinDigit(clean[i])
        matches == SelectSeq(MaskRuns([i \in 1..Len(input) |-> IsBinDigit(input[i])], 1),
                             AtLeast16)
    IN  IF whole /\ isPrintableBytes(BinBytes(clean)) THEN Ok(BinBytes(clean))
        ELSE IF Len(matches) = 0 THEN Err
        ELSE BinaryApply(input, matches, Len(matches), input, FALSE)

(***************************************************************************)
(* octal and the hex decoders                                              *)
(***************************************************************************)

\* some octal digit is followed by white space and then an octal digit: without
\* it `\b([0-7]{1,3}(?:\s+[0-7]{1,3})+)\b` has no match
OctalRunPossible(s) ==
    LET mask == [k \in 1..Len(s) |-> IsReSpace(s[k])]
    IN  \E i \in 1..(Len(s) - 2) :
            /\ IsOctDigit(s[i])
            /\ mask[i + 1]
            /\ RunEnd(mask, i + 1) < Len(s)
            /\ IsOctDigit(s[RunEnd(mask, i + 1) + 1])

RECURSIVE OctNumber(_, _)
OctNumber(s, acc) == IF s = << >> THEN acc ELSE OctNumber(Tail(s), 8 * acc + (Head(s) - 48))

\* strconv.ParseInt(part, 8, 64) for a part of at most three bytes
ParseOctal(part) ==
    LET signed == part # << >> /\ Head(part) \in {43, 45}
        digits == IF signed THEN Tail(part) ELSE part
    IN  IF digits = << >> \/ \E i \in 1..Len(digits) : ~IsOctDigit(digits[i])
        THEN [ok |-> FALSE, val |-> 0]
        ELSE [ok |-> TRUE,
              val |-> IF signed /\ Head(part) = 45 THEN 0 - OctNumber(digits, 0)
                      ELSE OctNumber(digits, 0)]

\* byte(val): the low eight bits
ToByte(val) == ((val % 256) + 256) % 256

\* the path taken when the regular expression has no match
OctalWords(input) ==
    LET parts == Fields(input)
    IN  IF Len(parts) = 0 THEN Err
        ELSE IF \E k \in 1..Len(parts) : Len(parts[k]) > 3 \/ ~ParseOctal(parts[k]).ok
        THEN Err
        ELSE LET bytes == [k \in 1..Len(parts) |-> ToByte(ParseOctal(parts[k]).val)]
             IN  IF isPrintableBytes(bytes) THEN Ok(bytes) ELSE Err

octalDecoder(input) ==
    IF OctalRunPossible(input) \/ HasUnicodeSpaceLead(input) THEN Unmodelled
    ELSE OctalWords(input)

\* two hex digits followed by white space: without it
\* `\b([0-9a-fA-F]{2}(?:\s+[0-9a-fA-F]{2})+)\b` has no match
hexWithSpacesDecoder(input) ==
    IF \E i \in 1..(Len(input) - 2) :
           IsHexDigit(input[i]) /\ IsHexDigit(input[i + 1]) /\ IsReSpace(input[i + 2])
    THEN Unmodelled
    ELSE Ok(input)

\* "0x" and two hex digits: without it `\b((?:0x[0-9a-fA-F]{2}(?:\s+|$))+)\b`
\* has no match
hexWithPrefixDecoder(input) ==
    IF \E i \in 1..(Len(input) - 3) :
           /\ input[i] = 48 /\ input[i + 1] = 120
           /\ IsHexDigit(input[i + 2]) /\ IsHexDigit(input[i + 3])
    THEN Unmodelled
    ELSE Ok(input)

IsGraphic(b) == b >= 32 /\ b <= 126

HexBytes(s) == [k \in 1..(Len(s) \div 2) |-> 16 * HexVal(s[2 * k - 1]) + HexVal(s[2 * k])]

\* the callback of hexWithoutSpacesDecoder on one match
HexRunDecoded(match) ==
    IF Len(match) % 2 # 0 THEN match
    ELSE LET data == HexBytes(match)
         IN  IF 5 * Count(data, IsGraphic) > 4 * Len(data) THEN data ELSE match

\* `\b([0-9a-fA-F]{6,})\b`: the maximal runs of hex digits, at least six long,
\* with no word byte on either side
RECURSIVE HexRunsReplace(_, _, _, _)
HexRunsReplace(input, runs, k, pos) ==
    IF k > Len(runs) THEN Slice(input, pos, Len(input))
    ELSE LET r       == runs[k]
             bounded == /\ (r.a = 0 \/ ~IsWordByte(input[r.a]))
                        /\ (r.b = Len(input) \/ ~IsWordByte(input[r.b + 1]))
         IN  IF RunLen(r) >= 6 /\ bounded
             THEN Slice(input, pos, r.a) \o HexRunDecoded(Slice(input, r.a, r.b))
                      \o HexRunsReplace(input, runs, k + 1, r.b)
             ELSE HexRunsReplace(input, runs, k + 1, pos)

hexWithoutSpacesDecoder(input) ==
    Ok(HexRunsReplace(input,
                      MaskRuns([i \in 1..Len(input) |-> IsHexDigit(input[i])], 1), 1, 0))

(***************************************************************************)
(* base64, base64_url (encoding/base64) and base32 (encoding/base32)       *)
(***************************************************************************)

NotNewline(b) == b # 10 /\ b # 13

\* index of b in the alphabet (url: '-' and '_' for '+' and '/'), or -1
B64Val(b, url) ==
    IF IsUpper(b) THEN b - 65
    ELSE IF IsLower(b) THEN b - 97 + 26
    ELSE IF IsDigit(b) THEN b - 48 + 52
    ELSE IF b = (IF url THEN 45 ELSE 43) THEN 62
    ELSE IF b = (IF url THEN 95 ELSE 47) THEN 63
    ELSE -1

IsB64(b, url) == B64Val(b, url) >= 0

B64Bytes(d, n) ==
    LET val == d[1] * 262144 + d[2] * 4096 + d[3] * 64 + d[4]
    IN  SubSeq(<< (val \div 65536) % 256, (val \div 256) % 256, val % 256 >>, 1, n)

Failed == [ok |-> FALSE, data |-> << >>]

\* Encoding.Decode on a source without '\r' and '\n', quantum by quantum;
\* padded is FALSE for the Raw encodings
RECURSIVE B64Quanta(_, _, _)
B64Quanta(src, url, padded) ==
    LET n    == Len(src)
        V(k) == B64Val(src[k], url)
        pad(k) == padded /\ src[k] = 61
    IN  IF n = 0 THEN [ok |-> TRUE, data |-> << >>]
        ELSE IF n = 1 \/ ~IsB64(src[1], url) \/ ~IsB64(src[2], url) THEN Failed
        ELSE IF n = 2
        THEN (IF padded THEN Failed
              ELSE [ok |-> TRUE, data |-> B64Bytes(<< V(1), V(2), 0, 0 >>, 1)])
        ELSE IF pad(3)
        THEN (IF n = 4 /\ src[4] = 61
              THEN [ok |-> TRUE, data |-> B64Bytes(<< V(1), V(2), 0, 0 >>, 1)]
              ELSE Failed)
        ELSE IF ~IsB64(src[3], url) THEN Failed
        ELSE IF n = 3
        THEN (IF padded THEN Failed
              ELSE [ok |-> TRUE, data |-> B64Bytes(<< V(1), V(2), V(3), 0 >>, 2)])
        ELSE IF pad(4)
        THEN (IF n = 4
              THEN [ok |-> TRUE, data |-> B64Bytes(<< V(1), V(2), V(3), 0 >>, 2)]
              ELSE Failed)
        ELSE IF ~IsB64(src[4], url) THEN Failed
        ELSE LET rest == B64Quanta(SubSeq(src, 5, n), url, padded)
             IN  IF rest.ok
                 THEN [ok |-> TRUE,
                       data |-> B64Bytes(<< V(1), V(2), V(3), V(4) >>, 3) \o rest.data]
                 ELSE Failed

\* Encoding.DecodeString: '\r' and '\n' are skipped wherever they stand
B64DecodeString(s, url, padded) == B64Quanta(SelectSeq(s, NotNewline), url, padded)

\* `[A-Za-z0-9+/]{8,}={0,2}`: each maximal run of at least eight alphabet bytes,
\* with up to two '=' that follow it
B64Matches(input, url) ==
    LET runs == SelectSeq(MaskRuns([i \in 1..Len(input) |-> IsB64(input[i], url)], 1),
                          AtLeast8)
        Eq(k) == k <= Len(input) /\ input[k] = 61
    IN  [k \in 1..Len(runs) |->
            [a |-> runs[k].a,
             b |-> runs[k].b + (IF Eq(runs[k].b + 1)
                                THEN (IF Eq(runs[k].b + 2) THEN 2 ELSE 1)
                                ELSE 0)]]

\* `^[A-Za-z]+$`
PureAlphabetic(segment) ==
    segment # << >> /\ \A i \in 1..Len(segment) : IsLower(segment[i]) \/ IsUpper(segment[i])

\* the loop "for i := len(matches) - 1; i >= 0; i--"
RECURSIVE B64Apply(_, _, _, _, _, _)
B64Apply(input, url, matches, k, result, anyDecoded) ==
    IF k = 0 THEN (IF anyDecoded THEN Ok(result) ELSE Err)
    ELSE LET start   == matches[k].a
             end     == matches[k].b
             segment == Slice(input, start, end)
             std     == B64DecodeString(segment, url, TRUE)
             decoded == IF std.ok THEN std ELSE B64DecodeString(segment, url, FALSE)
         IN  IF PureAlphabetic(segment) \/ ~decoded.ok \/ ~isPrintableBytes(decoded.data)
             THEN B64Apply(input, url, matches, k - 1, result, anyDecoded)
             ELSE B64Apply(input, url, matches, k - 1,
                      Slice(result, 0, start) \o decoded.data
                          \o Slice(result, end, Len(result)),
                      TRUE)

Base64With(input, url) ==
    LET whole   == B64DecodeString(input, url, TRUE)
        matches == B64Matches(input, url)
    IN  IF whole.ok /\ isPrintableBytes(whole.data) THEN Ok(whole.data)
        ELSE IF Len(matches) = 0 THEN Err
        ELSE B64Apply(input, url, matches, Len(matches), input, FALSE)

\* the decoder with the URL-safe alphabet
base64DecoderUrlSafe(input) == Base64With(input, TRUE)

base64Decoder(input) == Base64With(input, FALSE)

base64URLDecoder(input) == Base64With(input, TRUE)

\* index of b in "ABCDEFGHIJKLMNOPQRSTUVWXYZ234567", or -1
B32Val(b) ==
    IF IsUpper(b) THEN b - 65 ELSE IF b >= 50 /\ b <= 55 THEN b - 50 + 26 ELSE -1

IsB32(b) == B32Val(b) >= 0

\* the first n bytes of the 40 bits of a quantum
B32Bytes(d, n) ==
    LET hi == d[1] * 32768 + d[2] * 1024 + d[3] * 32 + d[4]
        lo == d[5] * 32768 + d[6] * 1024 + d[7] * 32 + d[8]
    IN  SubSeq(<< (hi \div 4096) % 256, (hi \div 16) % 256,
                  ((hi % 16) * 16) + ((lo \div 65536) % 16),
                  (lo \div 256) % 256, lo % 256 >>, 1, n)

\* number of valid leading characters of a quantum before padding or an error
RECURSIVE B32Lead(_, _)
B32Lead(src, j) ==
    IF j < 8 /\ j < Len(src) /\ IsB32(src[j + 1]) THEN B32Lead(src, j + 1) ELSE j

\* Encoding.decode of StdEncoding on a source without '\r' and '\n'
RECURSIVE B32Quanta(_)
B32Quanta(src) ==
    LET n    == Len(src)
        j    == B32Lead(src, 0)
        d    == [k \in 1..8 |-> IF k <= j THEN B32Val(src[k]) ELSE 0]
        left == n - j - 1
    IN  IF n = 0 THEN [ok |-> TRUE, data |-> << >>]
        ELSE IF j = 8
        THEN LET rest == B32Quanta(SubSeq(src, 9, n))
             IN  IF rest.ok THEN [ok |-> TRUE, data |-> B32Bytes(d, 5) \o rest.data]
                 ELSE Failed
        ELSE IF j = n THEN Failed
        ELSE IF src[j + 1] = 61 /\ j >= 2 /\ left < 8
        THEN (IF left + j < 7 THEN Failed
              ELSE IF \E k \in 1..(7 - j) : src[j + 1 + k] # 61 THEN Failed
              ELSE IF j \in {1, 3, 6} THEN Failed
              ELSE [ok |-> TRUE,
                    data |-> B32Bytes(d, CASE j = 7 -> 4 [] j = 5 -> 3 [] j = 4 -> 2
                                           [] OTHER -> 1)])
        ELSE Failed

B32DecodeString(s) == B32Quanta(SelectSeq(s, NotNewline))

\* unicode.ToUpper on one-byte runes and on U+FFFD
UpperRune(r) == IF IsLower(r) THEN r - 32 ELSE r

\* strings.ToUpper: strings.Map re-encodes every rune, so an invalid byte becomes
\* the three bytes of U+FFFD
ToUpper(s) == MapRunes(s, UpperRune)

\* every rune of s is a single byte, an invalid byte or U+FFFD
ToUpperModelled(s) ==
    \A i \in 1..Len(s) :
        s[i] >= 128 /\ ~IsCont(s[i]) => (DecodeRune(s, i).w = 1 \/ DecodeRune(s, i).r = RuneError)

\* `[A-Z2-7]{8,}={0,6}` on the upper-cased input
B32Matches(upper) ==
    LET runs == SelectSeq(MaskRuns([i \in 1..Len(upper) |-> IsB32(upper[i])], 1), AtLeast8)
        mask == [i \in 1..Len(upper) |-> upper[i] = 61]
        Pads(k) == IF k <= Len(upper) /\ mask[k] THEN Min2(6, RunEnd(mask, k) - k + 1) ELSE 0
    IN  [k \in 1..Len(runs) |-> [a |-> runs[k].a, b |-> runs[k].b + Pads(runs[k].b + 1)]]

\* the loop "for i := len(matches) - 1; i >= 0; i--": the offsets were found in
\* strings.ToUpper(input) and are used to slice input and result
RECURSIVE B32Apply(_, _, _, _, _)
B32Apply(input, matches, k, result, anyDecoded) ==
    IF k = 0 THEN (IF anyDecoded THEN Ok(result) ELSE Err)
    ELSE LET start == matches[k].a
             end   == matches[k].b
         IN  IF end > Len(input) \/ start > end THEN Panic
             ELSE IF ~ToUpperModelled(Slice(input, start, end)) THEN Unmodelled
             ELSE LET decoded == B32DecodeString(ToUpper(Slice(input, start, end)))
                  IN  IF ~decoded.ok \/ ~isPrintableBytes(decoded.data)
                      THEN B32Apply(input, matches, k - 1, result, anyDecoded)
                      ELSE IF start > Len(result) \/ end > Len(result) THEN Panic
                      ELSE B32Apply(input, matches, k - 1,
                               Slice(result, 0, start) \o decoded.data
                                   \o Slice(result, end, Len(result)),
                               TRUE)

base32Decoder(input) ==
    IF ~ToUpperModelled(input) THEN Unmodelled
    ELSE LET whole   == B32DecodeString(ToUpper(input))
             matches == B32Matches(ToUpper(input))
         IN  IF whole.ok /\ isPrintableBytes(whole.data) THEN Ok(whole.data)
             ELSE IF Len(matches) = 0 THEN Err
             ELSE B32Apply(input, matches, Len(matches), input, FALSE)

(***************************************************************************)
(* The registry                                                            *)
(***************************************************************************)

\* the keys of the map that getDecoders returns
DecoderNames ==
    { "reverse", "space_removal", "base64", "base64_url", "base32",
      "hex_with_spaces", "hex_without_spaces", "hex_with_prefix", "rot13", "rot47",
      "binary", "octal", "url", "html", "xor_bruteforce", "atbash", "morse",
      "unicode_escape", "base85", "caesar" }

\* s.Decoders[name](input)
Decode(name, input) ==
    CASE name = "reverse" -> reverseDecoder(input)
      [] name = "space_removal" -> spaceRemovalDecoder(input)
      [] name = "base64" -> base64Decoder(input)
      [] name = "base64_url" -> base64URLDecoder(input)
      [] name = "base32" -> base32Decoder(input)
      [] name = "hex_with_spaces" -> hexWithSpacesDecoder(input)
      [] name = "hex_without_spaces" -> hexWithoutSpacesDecoder(input)
      [] name = "hex_with_prefix" -> hexWithPrefixDecoder(input)
      [] name = "rot13" -> rot13Decoder(input)
      [] name = "rot47" -> rot47Decoder(input)
      [] name = "binary" -> binaryDecoder(input)
      [] name = "octal" -> octalDecoder(input)
      [] name = "url" -> urlDecoder(input)
      [] name = "html" -> htmlEntityDecoder(input)
      [] name = "xor_bruteforce" -> xorBruteForceDecoder(input)
      [] name = "atbash" -> atbashDecoder(input)
      [] name = "morse" -> morseDecoder(input)
      [] name = "unicode_escape" -> unicodeEscapeDecoder(input)
      [] name = "base85" -> base85Decoder(input)
      [] name = "caesar" -> caesarBruteForceDecoder(input)


(***************************************************************************)
(* The compiled pattern: regexp.QuoteMeta(pattern), with "(?i)" in front   *)
(* when the search is not case sensitive.  Patterns are ASCII literals     *)
(* without 'k' and 's' (whose simple case folds leave ASCII).              *)
(***************************************************************************)

Fold(b) == IF IsUpper(b) THEN b + 32 ELSE b

EqByte(a, b, caseSensitive) == IF caseSensitive THEN a = b ELSE Fold(a) = Fold(b)

\* the literal matches content[pos : pos+len(pattern)]
MatchAt(content, pos, pattern, caseSensitive) ==
    /\ pos + Len(pattern) <= Len(content)
    /\ \A k \in 1..Len(pattern) : EqByte(content[pos + k], pattern[k], caseSensitive)

\* start of the leftmost match at or after pos, -1 when there is none
FindFrom(content, pos, pattern, caseSensitive) ==
    LET hits == {p \in pos..Len(content) : MatchAt(content, p, pattern, caseSensitive)}
    IN  IF hits = {} THEN -1 ELSE CHOOSE p \in hits : \A q \in hits : p <= q

\* s.Regexp.MatchString(content)
matches(content, pattern, caseSensitive) ==
    FindFrom(content, 0, pattern, caseSensitive) # -1

\* regexp.(*Regexp).allMatches: successive non-overlapping matches; an empty
\* match directly after the previous match is dropped, and after an empty
\* match the scan moves on by one rune
RECURSIVE allMatches(_, _, _, _, _, _, _)
allMatches(content, pattern, caseSensitive, n, pos, i, prevMatchEnd) ==
    IF ~(i < n /\ pos <= Len(content)) THEN << >>
    ELSE LET m0 == FindFrom(content, pos, pattern, caseSensitive)
             m1 == m0 + Len(pattern)
             empty == m1 = pos
             accept == ~(empty /\ m0 = prevMatchEnd)
             width == IF pos < Len(content) THEN DecodeRune(content, pos + 1).w ELSE 0
             next == IF ~empty THEN m1
                     ELSE IF width > 0 THEN pos + width ELSE Len(content) + 1
         IN  IF m0 = -1 THEN << >>
             ELSE (IF accept THEN << [a |-> m0, b |-> m1] >> ELSE << >>)
                  \o allMatches(content, pattern, caseSensitive, n, next,
                                IF accept THEN i + 1 ELSE i, m1)

\* s.Regexp.FindAllStringIndex(content, n)
FindAllStringIndex(content, pattern, caseSensitive, n) ==
    allMatches(content, pattern, caseSensitive, n, 0, 0, -1)

(***************************************************************************)
(* printMatch                                                              *)
(***************************************************************************)

maxMatchesPerFile == 5

\* Go s[a:b] is in range
SliceOk(s, a, b) == 0 <= a /\ a <= b /\ b <= Len(s)

\* the three slices "prefix", "match" and "suffix" of one hit are in range
ContextOk(content, loc, before, after) ==
    LET start == Max2(loc.a - before, 0)
        end   == Min2(loc.b + after, Len(content))
    IN  SliceOk(content, start, loc.a) /\ SliceOk(content, loc.a, loc.b)
        /\ SliceOk(content, loc.b, end)

\* the record of one hit: Match{File, Decoders, Match, Context, Offset}
MatchRecord(path, decoders, content, loc, before, after) ==
    LET start == Max2(loc.a - before, 0)
        end   == Min2(loc.b + after, Len(content))
    IN  [kind |-> "match", file |-> path, decoders |-> decoders,
         match |-> Slice(content, loc.a, loc.b),
         context |-> Slice(content, start, loc.a) \o Slice(content, loc.a, loc.b)
                     \o Slice(content, loc.b, end),
         offset |-> loc.a]

\* the line "... and more matches ..."
MoreRecord(path, decoders) ==
    [kind |-> "more", file |-> path, decoders |-> decoders,
     match |-> << >>, context |-> << >>, offset |-> 0]

\* how many loop iterations of printMatch emit a record
Capped(n) == Min2(n, maxMatchesPerFile)

\* one call of printMatch: the records it emits, in order, whether the
\* "and more" line follows, and whether a slice expression panics
printMatch(path, decoders, content, c) ==
    LET locs  == FindAllStringIndex(content, c.pattern, c.caseSensitive,
                                    maxMatchesPerFile + 1)
        shown == Capped(Len(locs))
        bad   == {i \in 1..shown : ~ContextOk(content, locs[i], c.before, c.after)}
        upto  == IF bad = {} THEN shown
                 ELSE (CHOOSE i \in bad : \A j \in bad : i <= j) - 1
    IN  [records |-> [i \in 1..upto |->
                        MatchRecord(path, decoders, content, locs[i], c.before, c.after)],
         more    |-> bad = {} /\ Len(locs) > maxMatchesPerFile /\ c.mode = "plain",
         panic   |-> bad # {}]


(***************************************************************************)
(* File gates of processFile                                               *)
(***************************************************************************)

\* magicSignatures, in table order: name, magic bytes, offset
magicSignatures ==
    << [name |-> "ELF", magic |-> <<127, 69, 76, 70>>, offset |-> 0],
       [name |-> "MZ", magic |-> <<77, 90>>, offset |-> 0],
       [name |-> "MACH-O", magic |-> <<254, 237, 250, 206>>, offset |-> 0],
       [name |-> "MACH-O64", magic |-> <<254, 237, 250, 207>>, offset |-> 0],
       [name |-> "ZIP", magic |-> <<80, 75, 3, 4>>, offset |-> 0],
       [name |-> "GZIP", magic |-> <<31, 139>>, offset |-> 0],
       [name |-> "RAR", magic |-> <<82, 97, 114, 33, 26, 7>>, offset |-> 0],
       [name |-> "7Z", magic |-> <<55, 122, 188, 175, 39, 28>>, offset |-> 0],
       [name |-> "TAR", magic |-> <<117, 115, 116, 97, 114>>, offset |-> 257],
       [name |-> "XZ", magic |-> <<253, 55, 122, 88, 90, 0>>, offset |-> 0],
       [name |-> "BZIP2", magic |-> <<66, 90, 104>>, offset |-> 0],
       [name |-> "PDF", magic |-> <<37, 80, 68, 70>>, offset |-> 0],
       [name |-> "PNG", magic |-> <<137, 80, 78, 71, 13, 10, 26, 10>>, offset |-> 0],
       [name |-> "JPEG", magic |-> <<255, 216, 255>>, offset |-> 0],
       [name |-> "GIF", magic |-> <<71, 73, 70, 56>>, offset |-> 0],
       [name |-> "BMP", magic |-> <<66, 77>>, offset |-> 0],
       [name |-> "WEBP", magic |-> <<82, 73, 70, 70>>, offset |-> 0],
       [name |-> "MP3", magic |-> <<255, 251>>, offset |-> 0],
       [name |-> "MP3_ID3", magic |-> <<73, 68, 51>>, offset |-> 0],
       [name |-> "OGG", magic |-> <<79, 103, 103, 83>>, offset |-> 0],
       [name |-> "FLAC", magic |-> <<102, 76, 97, 67>>, offset |-> 0],
       [name |-> "CLASS", magic |-> <<202, 254, 186, 190>>, offset |-> 0],
       [name |-> "DEX", magic |-> <<100, 101, 120, 10>>, offset |-> 0],
       [name |-> "SCRIPT", magic |-> <<35, 33>>, offset |-> 0],
       [name |-> "SQLITE",
        magic |-> <<83, 81, 76, 105, 116, 101, 32, 102, 111, 114, 109, 97, 116>>,
        offset |-> 0] >>

\* a comparison at the start of the data, whatever the signature's offset
SignatureAtStart(data, sig) ==
    /\ Len(data) >= Len(sig.magic)
    /\ Slice(data, 0, Len(sig.magic)) = sig.magic

\* one iteration of the loop of DetectMagic
SignatureAt(data, sig) ==
    /\ Len(data) >= sig.offset + Len(sig.magic)
    /\ Slice(data, sig.offset, sig.offset + Len(sig.magic)) = sig.magic

DetectMagic(data) ==
    LET hits == {i \in 1..Len(magicSignatures) : SignatureAt(data, magicSignatures[i])}
    IN  IF hits = {} THEN "unknown"
        ELSE magicSignatures[CHOOSE i \in hits : \A j \in hits : i <= j].name

MatchesMagicFilter(data, filter) ==
    \/ Len(filter) = 0
    \/ \E i \in 1..Len(filter) : filter[i] = DetectMagic(data)

RECURSIVE Pow(_, _)
Pow(b, e) == IF e = 0 THEN 1 ELSE b * Pow(b, e - 1)

\* freq[b] of CalculateEntropy
Freq(data, b) == Cardinality({i \in 1..Len(data) : data[i] = b})

RECURSIVE FreqProduct(_, _)
FreqProduct(data, bytes) ==
    IF bytes = {} THEN 1
    ELSE LET b == CHOOSE x \in bytes : TRUE
         IN  Pow(Freq(data, b), Freq(data, b)) * FreqProduct(data, bytes \ {b})

\* a gate that also skips a file whose entropy equals the threshold
EntropyAtMost(data, threshold) ==
    LET n == Len(data)
    IN  IF n = 0 THEN 0 <= threshold
        ELSE Pow(n, n) <= Pow(2, n * threshold)
                           * FreqProduct(data, {data[i] : i \in 1..n})

\* "CalculateEntropy(content) < threshold" for a threshold of whole bits:
\* with n = len(data) and counts c, H = log2(n) - (sum c*log2(c))/n, so
\* H < t  iff  n^n < 2^(n*t) * prod c^c
EntropyBelow(data, threshold) ==
    LET n == Len(data)
    IN  IF n = 0 THEN 0 < threshold
        ELSE Pow(n, n) < Pow(2, n * threshold)
                          * FreqProduct(data, {data[i] : i \in 1..n})

\* which return of processFile skips a file: the failed read (162-168), the
\* magic filter (171-178), then the entropy threshold (185-193)
SkippedBy(f, c) ==
    IF ~f.readable THEN "read"
    ELSE IF Len(c.magicTypes) > 0 /\ ~MatchesMagicFilter(f.data, c.magicTypes)
    THEN "magic"
    ELSE IF c.entropyThreshold > 0 /\ EntropyBelow(f.data, c.entropyThreshold)
    THEN "entropy"
    ELSE "none"

\* the two early returns of processFile after a successful read
Gated(data, c) ==
    \/ Len(c.magicTypes) > 0 /\ ~MatchesMagicFilter(data, c.magicTypes)
    \/ c.entropyThreshold > 0 /\ EntropyBelow(data, c.entropyThreshold)

(***************************************************************************)
(* searchBFS                                                               *)
(***************************************************************************)

\* the initial queue element
RootState(content) == [content |-> content, appliedDecoders |-> << >>, depth |-> 0]

\* a depth check that lets the states of depth D through
ReachedMaxDepthStrict(depth, maxDepth) == depth > maxDepth

\* "if currentState.depth >= s.Depth { continue }"
ReachedMaxDepth(depth, maxDepth) == depth >= maxDepth

\* a chain that grows at its front
newAppliedFront(applied, name) == << name >> \o applied

\* "copy(newApplied, currentState.appliedDecoders); append(newApplied, name)"
newApplied(applied, name) == Append(applied, name)

\* a queue that grows at its front (a stack)
EnqueueFront(queue, states) == states \o queue

\* "queue = append(queue, searchState{...})", once per accepted decoder
Enqueue(queue, states) == queue \o states

\* a test that lets empty outputs through
AcceptedEmpty(content, r) == r.st = "ok" /\ r.out # content

\* "err == nil && decoded != "" && decoded != currentState.content"
Accepted(content, r) == r.st = "ok" /\ r.out # << >> /\ r.out # content

Successor(state, name, out) ==
    [content |-> out,
     appliedDecoders |-> newApplied(state.appliedDecoders, name),
     depth |-> state.depth + 1]

\* the orders in which one "for name, decoder := range s.Decoders" can visit
\* a set of keys: Go does not fix the iteration order of a map, and it may
\* differ from one range statement to the next
RECURSIVE Orders(_)
Orders(S) ==
    IF S = {} THEN {<< >>}
    ELSE UNION {{<< x >> \o o : o \in Orders(S \ {x})} : x \in S}

\* the decoders named in chain applied in order to content
RECURSIVE ApplyChain(_, _)
ApplyChain(content, chain) ==
    IF chain = << >> THEN Ok(content)
    ELSE IF Head(chain) \notin DecoderNames THEN Err
    ELSE LET r == Decode(Head(chain), content)
         IN  IF r.st = "ok" THEN ApplyChain(r.out, Tail(chain)) ELSE r


(***************************************************************************)
(* Bounds and input sets                                                   *)
(***************************************************************************)

\* largest configured depth (-depth) of a search over a narrow input
MaxDepth == 2

\* largest -A / -B value
MaxContext == 1

\* largest worker count (-workers)
MaxWorkers == 2

\* largest configured depth of a run over files
MaxRunDepth == 1

Tab == << 9 >>

TabNewline == << 9, 10 >>

Tabs == << 9, 9, 9 >>

Framed == << 60, 126, 62 >>

Letter == << 80 >>

\* contents with letters are accepted by many decoders; they are searched
\* without decoding
WideInputs == { Letter }

StdinInputs == { << >>, Tabs, Framed, Letter }

Patterns == { << >>, Tab, << 32 >>, << 112 >> }

Modes == { "plain", "json", "tui" }

Files == { "f1", "f2" }

FileContents == { TabNewline, Framed }

RunPaths == { << "f1" >>, << "f1", "f2" >>, << "f1", "f1" >>, << "-", "f2" >>,
              << "f2", "nofile" >> }

Missing == [kind |-> "missing", readable |-> FALSE, data |-> << >>]

FileStates ==
    { [kind |-> "file", readable |-> TRUE, data |-> d] : d \in FileContents }
    \cup { [kind |-> "file", readable |-> FALSE, data |-> << >>] }

\* an os.Stat that fails for every path
LookupNothing(fs, path) == Missing

\* os.Stat / os.ReadFile of a path
Lookup(fs, path) == IF path \in DOMAIN fs THEN fs[path] ELSE Missing

(***************************************************************************)
(* The run: coordinator (process 0, the caller of Run) and workers 1..W    *)
(***************************************************************************)

VARIABLES
    cfg,        \* the Searcher's fields
    env,        \* standard input and the file system
    pc,         \* where each goroutine is
    pathIdx,    \* the coordinator's position in s.Paths
    offered,    \* the path the coordinator is blocked sending, if any
    closed,     \* fileChan is closed
    wg,         \* the WaitGroup counter
    wfile,      \* the path each worker received last, and its position
    unit,       \* per goroutine: path tag and root content of its search
    queue,      \* per goroutine: the local queue of searchBFS
    dying,      \* per goroutine: the current loop iteration ends in a panic
    pending,    \* per goroutine: records printMatch still has to Add
    snap,       \* per goroutine: the value of mc.Matches read by append
    collector,  \* mc.Matches
    stdout,     \* the lines printed so far
    emitted,    \* per goroutine: records of the current search, with their state
    history,    \* the finished searches
    received,   \* the receipts from fileChan
    processed,  \* the calls of processFile that returned
    crashed,    \* a goroutine panicked: the process is gone
    stdinRead,  \* standard input has been consumed
    runErr,     \* Run returned an error
    dequeued,   \* per goroutine: states dequeued by the current search
    decIn,      \* decoder check: the input
    decName,    \* decoder check: the decoder applied last
    decRes,     \* decoder check: its result
    tui         \* the TUI object, once main has created it

vars == << cfg, env, pc, pathIdx, offered, closed, wg, wfile, unit, queue, dying,
           pending, snap, collector, stdout, emitted, history, received,
           processed, crashed, stdinRead, runErr, dequeued, decIn, decName, decRes,
           tui >>

decVars == << decIn, decName, decRes, tui >>

runVars == << cfg, env, pc, pathIdx, offered, closed, wg, wfile, unit, queue,
              dying, pending, snap, collector, stdout, emitted, history,
              received, processed, crashed, stdinRead, runErr, dequeued >>

Procs == 0..MaxWorkers

Workers == 1..MaxWorkers

NoUnit == [path |-> "", idx |-> 0, root |-> << >>]

NoFile == [path |-> "", idx |-> 0]

InitRun ==
    /\ pc = [p \in Procs |-> IF p = 0 THEN "start" ELSE "none"]
    /\ pathIdx = 1
    /\ offered = ""
    /\ closed = FALSE
    /\ wg = 0
    /\ wfile = [p \in Procs |-> NoFile]
    /\ unit = [p \in Procs |-> NoUnit]
    /\ queue = [p \in Procs |-> << >>]
    /\ dying = [p \in Procs |-> FALSE]
    /\ pending = [p \in Procs |-> << >>]
    /\ snap = [p \in Procs |-> << >>]
    /\ collector = << >>
    /\ stdout = << >>
    /\ emitted = [p \in Procs |-> << >>]
    /\ history = {}
    /\ received = << >>
    /\ processed = {}
    /\ crashed = FALSE
    /\ stdinRead = FALSE
    /\ runErr = FALSE
    /\ dequeued = [p \in Procs |-> 0]

\* no TUI object exists
NoTUI ==
    [matches |-> << >>, filteredIdx |-> << >>, currentIndex |-> 0, pageSize |-> 0,
     running |-> FALSE, searchMode |-> FALSE, searchQuery |-> << >>,
     helpMode |-> FALSE, panic |-> FALSE]

InitDec ==
    /\ decIn = << >>
    /\ decName = ""
    /\ decRes = Err
    /\ tui = NoTUI

\* flagrep PATTERN < input: no path argument
Init ==
    /\ cfg \in [paths : {<< >>}, pattern : Patterns, caseSensitive : BOOLEAN,
                workers : {1}, depth : 0..MaxDepth, before : 0..MaxContext,
                after : 0..MaxContext, mode : Modes,
                entropyThreshold : {0}, magicTypes : {<< >>}]
    /\ env \in [stdin : [ok : {TRUE}, data : StdinInputs]
                        \cup {[ok |-> FALSE, data |-> << >>]},
                fs : {[f \in Files |-> Missing]}]
    /\ env.stdin.data \in WideInputs => cfg.depth = 0
    /\ InitRun
    /\ InitDec

\* flagrep PATTERN path...
InitFiles ==
    /\ cfg \in [paths : RunPaths, pattern : {Tab}, caseSensitive : {TRUE},
                workers : 1..MaxWorkers, depth : 0..MaxRunDepth, before : {0},
                after : {0}, mode : {"plain", "tui"},
                entropyThreshold : {0}, magicTypes : {<< >>}]
    /\ env \in [stdin : {[ok |-> TRUE, data |-> TabNewline],
                         [ok |-> FALSE, data |-> << >>]},
                fs : [Files -> FileStates]]
    /\ InitRun
    /\ InitDec

\* where a goroutine continues when its searchBFS returns
AfterSearch(p) ==
    IF p # 0 THEN "recv" ELSE IF cfg.paths = << >> THEN "returned" ELSE "loop"

\* Run, lines 75-86: the channel, the WaitGroup and the worker goroutines
RunStart ==
    /\ ~crashed /\ pc[0] = "start"
    /\ pc' = [p \in Procs |->
                IF p = 0 THEN (IF Len(cfg.paths) = 0 THEN "stdin" ELSE "loop")
                ELSE IF p <= cfg.workers THEN "recv" ELSE "none"]
    /\ wg' = Max2(cfg.workers, 0)
    /\ UNCHANGED << cfg, env, pathIdx, offered, closed, wfile, unit, queue, dying,
                    pending, snap, collector, stdout, emitted, history, received,
                    processed, crashed, stdinRead, runErr, dequeued, decVars >>

\* the first lines of searchBFS: the queue holds the root state
BeginSearch(p, path, idx, content) ==
    /\ unit' = [unit EXCEPT ![p] = [path |-> path, idx |-> idx, root |-> content]]
    /\ queue' = [queue EXCEPT ![p] = << RootState(content) >>]
    /\ emitted' = [emitted EXCEPT ![p] = << >>]
    /\ dequeued' = [dequeued EXCEPT ![p] = 0]

\* io.ReadAll(os.Stdin): what is left of standard input
StdinData == IF stdinRead THEN << >> ELSE env.stdin.data

\* Run, lines 89-96: no path given
StdinOnly ==
    /\ ~crashed /\ pc[0] = "stdin"
    /\ IF env.stdin.ok
       THEN /\ BeginSearch(0, "(stdin)", 0, StdinData)
            /\ pc' = [pc EXCEPT ![0] = "visit"]
            /\ stdinRead' = TRUE
            /\ UNCHANGED runErr
       ELSE /\ pc' = [pc EXCEPT ![0] = "returned"]
            /\ runErr' = TRUE
            /\ UNCHANGED << unit, queue, emitted, dequeued, stdinRead >>
    /\ UNCHANGED << cfg, env, pathIdx, offered, closed, wg, wfile, dying, pending,
                    snap, collector, stdout, history, received, processed,
                    crashed, decVars >>

\* a diagnostic line of Run
ErrorLine(kind, path) ==
    [kind |-> kind, file |-> path, decoders |-> << >>, match |-> << >>,
     context |-> << >>, offset |-> 0]

\* Run, lines 100-108: the path "-"
StdinPath ==
    /\ ~crashed /\ pc[0] = "loop"
    /\ pathIdx <= Len(cfg.paths) /\ cfg.paths[pathIdx] = "-"
    /\ IF env.stdin.ok
       THEN /\ BeginSearch(0, "(stdin)", pathIdx, StdinData)
            /\ pc' = [pc EXCEPT ![0] = "visit"]
            /\ stdinRead' = TRUE
            /\ UNCHANGED << stdout, pathIdx >>
       ELSE /\ stdout' = Append(stdout, ErrorLine("stdin error", "-"))
            /\ pathIdx' = pathIdx + 1
            /\ UNCHANGED << pc, unit, queue, emitted, dequeued, stdinRead >>
    /\ UNCHANGED << cfg, env, offered, closed, wg, wfile, dying, pending, snap,
                    collector, history, received, processed, crashed, runErr,
                    decVars >>

\* Run, lines 110-113, and walk for a root that is not a directory: a failed
\* os.Stat is printed and the loop goes on; a file is sent on fileChan
Walk ==
    /\ ~crashed /\ pc[0] = "loop"
    /\ pathIdx <= Len(cfg.paths) /\ cfg.paths[pathIdx] # "-"
    /\ LET path == cfg.paths[pathIdx]
       IN  IF Lookup(env.fs, path).kind = "missing"
           THEN /\ stdout' = Append(stdout, ErrorLine("walk error", path))
                /\ pathIdx' = pathIdx + 1
                /\ UNCHANGED << pc, offered >>
           ELSE /\ offered' = path
                /\ pc' = [pc EXCEPT ![0] = "send"]
                /\ UNCHANGED << stdout, pathIdx >>
    /\ UNCHANGED << cfg, env, closed, wg, wfile, unit, queue, dying, pending, snap,
                    collector, emitted, history, received, processed, crashed,
                    stdinRead, runErr, dequeued, decVars >>

\* "for path := range fileChan" meets "fileChan <- root": the channel is
\* unbuffered, so the send completes when one idle worker receives
Receive(w) ==
    /\ ~crashed /\ pc[0] = "send" /\ pc[w] = "recv"
    /\ wfile' = [wfile EXCEPT ![w] = [path |-> offered, idx |-> pathIdx]]
    /\ received' = Append(received, [path |-> offered, idx |-> pathIdx, worker |-> w])
    /\ offered' = ""
    /\ pathIdx' = pathIdx + 1
    /\ pc' = [pc EXCEPT ![0] = "loop", ![w] = "process"]
    /\ UNCHANGED << cfg, env, closed, wg, unit, queue, dying, pending, snap,
                    collector, stdout, emitted, history, processed, crashed,
                    stdinRead, runErr, dequeued, decVars >>

\* Run, line 116
Close ==
    /\ ~crashed /\ pc[0] = "loop" /\ pathIdx > Len(cfg.paths)
    /\ closed' = TRUE
    /\ pc' = [pc EXCEPT ![0] = "wait"]
    /\ UNCHANGED << cfg, env, pathIdx, offered, wg, wfile, unit, queue, dying,
                    pending, snap, collector, stdout, emitted, history, received,
                    processed, crashed, stdinRead, runErr, dequeued, decVars >>

\* the range loop of a worker ends on the closed channel; "defer wg.Done()"
WorkerExit(w) ==
    /\ ~crashed /\ pc[w] = "recv" /\ closed
    /\ pc' = [pc EXCEPT ![w] = "exited"]
    /\ wg' = wg - 1
    /\ UNCHANGED << cfg, env, pathIdx, offered, closed, wfile, unit, queue, dying,
                    pending, snap, collector, stdout, emitted, history, received,
                    processed, crashed, stdinRead, runErr, dequeued, decVars >>

\* wg.Wait() returns when the counter is zero
WaitDone(counter) == counter = 0

\* Run, lines 117-119
Wait ==
    /\ ~crashed /\ pc[0] = "wait" /\ WaitDone(wg)
    /\ pc' = [pc EXCEPT ![0] = "returned"]
    /\ runErr' = FALSE
    /\ UNCHANGED << cfg, env, pathIdx, offered, closed, wg, wfile, unit, queue,
                    dying, pending, snap, collector, stdout, emitted, history,
                    received, processed, crashed, stdinRead, dequeued, decVars >>

\* processFile up to the call of searchBFS
ProcessFile(w) ==
    /\ ~crashed /\ pc[w] = "process"
    /\ LET f == Lookup(env.fs, wfile[w].path)
       IN  IF ~f.readable \/ Gated(f.data, cfg)
           THEN /\ processed' = processed \cup {[idx |-> wfile[w].idx, worker |-> w,
                                                 searched |-> FALSE,
                                                 skip |-> SkippedBy(f, cfg)]}
                /\ pc' = [pc EXCEPT ![w] = "recv"]
                /\ UNCHANGED << unit, queue, emitted, dequeued >>
           ELSE /\ BeginSearch(w, wfile[w].path, wfile[w].idx, f.data)
                /\ pc' = [pc EXCEPT ![w] = "visit"]
                /\ UNCHANGED processed
    /\ UNCHANGED << cfg, env, pathIdx, offered, closed, wg, wfile, dying, pending,
                    snap, collector, stdout, history, received, crashed,
                    stdinRead, runErr, decVars >>

\* a record together with the state it was produced from
Emission(rec, state) == [rec |-> rec, content |-> state.content, depth |-> state.depth]

\* every decoder of the registry applied to one content
Results(content) == [name \in DecoderNames |-> Decode(name, content)]

\* the lines 229-243 of searchBFS for one state, given what the decoders
\* return: the queue suffixes one range over s.Decoders can append
Range(state, res) ==
    [unmodelled |-> \E name \in DecoderNames : res[name].st = "unmodelled",
     panic |-> \E name \in DecoderNames : res[name].st = "panic",
     successors |->
        { [i \in 1..Len(order) |-> Successor(state, order[i], res[order[i]].out)]
          : order \in Orders({name \in DecoderNames :
                                Accepted(state.content, res[name])}) }]

NoRange == [unmodelled |-> FALSE, panic |-> FALSE, successors |-> {<< >>}]

\* lines 219-222: the records of the dequeued state
Report(path, state, c) ==
    IF matches(state.content, c.pattern, c.caseSensitive)
    THEN printMatch(path, state.appliedDecoders, state.content, c)
    ELSE [records |-> << >>, more |-> FALSE, panic |-> FALSE]

\* lines 224-243: the depth check and the expansion
Grow(state, pm, c) ==
    IF ~pm.panic /\ ~ReachedMaxDepth(state.depth, c.depth)
    THEN Range(state, Results(state.content))
    ELSE NoRange

\* the lines printMatch writes to standard output
Lines(path, state, pm) ==
    IF pm.more THEN Append(pm.records, MoreRecord(path, state.appliedDecoders))
    ELSE pm.records

\* the effect of one loop iteration on goroutine p, given its records pm and
\* its expansion ex
Iterate(p, state, pm, ex, toAdd) ==
    /\ dequeued' = [dequeued EXCEPT ![p] = dequeued[p] + 1]
    /\ emitted' = [emitted EXCEPT ![p] =
                     emitted[p] \o [i \in 1..Len(pm.records) |->
                                      Emission(pm.records[i], state)]]
    /\ stdout' = IF cfg.mode = "tui" THEN stdout
                 ELSE stdout \o Lines(unit[p].path, state, pm)
    /\ pending' = [pending EXCEPT ![p] = toAdd]
    /\ dying' = [dying EXCEPT ![p] = pm.panic \/ ex.panic]
    /\ crashed' = ((pm.panic \/ ex.panic) /\ ~ex.unmodelled /\ toAdd = << >>)
    /\ pc' = [pc EXCEPT ![p] = IF ex.unmodelled THEN "unmodelled"
                               ELSE IF toAdd # << >> THEN "add"
                               ELSE "visit"]
    /\ \E new \in ex.successors :
         queue' = [queue EXCEPT ![p] =
                     IF pm.panic \/ ex.panic \/ ex.unmodelled THEN Tail(queue[p])
                     ELSE Enqueue(Tail(queue[p]), new)]

IterateWith(p, state, pm) ==
    Iterate(p, state, pm, Grow(state, pm, cfg),
            IF cfg.mode = "tui" THEN pm.records ELSE << >>)

\* searchBFS, lines 216-243: one iteration of "for len(queue) > 0".  The head
\* is dequeued, its matches are reported, and below the depth bound every
\* decoder is applied.  The streaming printers write their lines at once; in
\* TUI mode the records are handed to MatchCollector.Add one after the other
\* (AddRead, AddWrite), and a panic of this iteration takes effect after them.
\* The queue is local to the goroutine, so growing it before the records are
\* added cannot be observed.  A panic in printMatch or in a decoder is not
\* recovered anywhere and ends the process
Visit(p) ==
    /\ ~crashed /\ pc[p] = "visit" /\ queue[p] # << >>
    /\ IterateWith(p, Head(queue[p]), Report(unit[p].path, Head(queue[p]), cfg))
    /\ UNCHANGED << cfg, env, pathIdx, offered, closed, wg, wfile, unit, snap,
                    collector, history, received, processed, stdinRead, runErr,
                    decVars >>

\* MatchCollector.Add, first half: append reads the slice mc.Matches
AddRead(p) ==
    /\ ~crashed /\ pc[p] = "add" /\ snap[p] = << >>
    /\ snap' = [snap EXCEPT ![p] = << collector >>]
    /\ UNCHANGED << cfg, env, pc, pathIdx, offered, closed, wg, wfile, unit, queue,
                    dying, pending, collector, stdout, emitted, history, received,
                    processed, crashed, stdinRead, runErr, dequeued, decVars >>

\* MatchCollector.Add, second half: the element is stored behind the elements
\* read and the new slice is assigned to mc.Matches.  No lock is held between
\* the halves
AddWrite(p) ==
    /\ ~crashed /\ pc[p] = "add" /\ snap[p] # << >>
    /\ collector' = Append(snap[p][1], Head(pending[p]))
    /\ snap' = [snap EXCEPT ![p] = << >>]
    /\ pending' = [pending EXCEPT ![p] = Tail(pending[p])]
    /\ IF Len(pending[p]) > 1
       THEN UNCHANGED << pc, crashed >>
       ELSE /\ pc' = [pc EXCEPT ![p] = "visit"]
            /\ crashed' = dying[p]
    /\ UNCHANGED << cfg, env, pathIdx, offered, closed, wg, wfile, unit, queue,
                    dying, stdout, emitted, history, received, processed,
                    stdinRead, runErr, dequeued, decVars >>

\* searchBFS returns: "for len(queue) > 0" ends
SearchDone(p) ==
    /\ ~crashed /\ pc[p] = "visit" /\ queue[p] = << >>
    /\ history' = history \cup {[idx |-> unit[p].idx, path |-> unit[p].path,
                                 root |-> unit[p].root, by |-> p,
                                 records |-> emitted[p],
                                 dequeued |-> dequeued[p]]}
    /\ pc' = [pc EXCEPT ![p] = AfterSearch(p)]
    /\ IF p = 0
       THEN /\ pathIdx' = IF cfg.paths = << >> THEN pathIdx ELSE pathIdx + 1
            /\ runErr' = FALSE
            /\ UNCHANGED processed
       ELSE /\ processed' = processed \cup {[idx |-> wfile[p].idx, worker |-> p,
                                             searched |-> TRUE,
                                             skip |-> "none"]}
            /\ UNCHANGED << pathIdx, runErr >>
    /\ UNCHANGED << cfg, env, offered, closed, wg, wfile, unit, queue, dying,
                    pending, snap, collector, stdout, emitted, received, crashed,
                    stdinRead, dequeued, decVars >>

\* a search over standard input alone
Next ==
    \/ RunStart
    \/ StdinOnly
    \/ Visit(0)
    \/ AddRead(0)
    \/ AddWrite(0)
    \/ SearchDone(0)

Spec == Init /\ [][Next]_vars

\* a run over paths
NextFiles ==
    \/ RunStart
    \/ StdinPath
    \/ Walk
    \/ Close
    \/ Wait
    \/ \E w \in Workers : Receive(w) \/ WorkerExit(w) \/ ProcessFile(w)
    \/ \E p \in Procs : Visit(p) \/ AddRead(p) \/ AddWrite(p) \/ SearchDone(p)

SpecFiles == InitFiles /\ [][NextFiles]_vars

\* the goroutine is not blocked and has not ended: it takes a step when it
\* is scheduled
GoroutineCanStep(p) ==
    CASE pc[p] \in {"start", "stdin", "loop", "process", "visit", "add"} -> TRUE
      [] pc[p] = "send" -> \E w \in Workers : pc[w] = "recv"
      [] pc[p] = "wait" -> WaitDone(wg)
      [] pc[p] = "recv" -> pc[0] = "send" \/ closed
      [] OTHER -> FALSE

\* the process is alive and some goroutine can take a step
CanStep == ~crashed /\ \E p \in Procs : GoroutineCanStep(p)

\* no state leaves the translated part of the decoders
AllModelled == \A p \in Procs : pc[p] # "unmodelled"


(***************************************************************************)
(* The decoders on their own                                               *)
(***************************************************************************)

\* inputs of the repository's decoder tests, and inputs with malformed frames
DecoderInputs ==
    { << >>,
      Tabs,
      Framed,
      << 255, 65, 66, 67, 68, 69, 70, 71, 72 >>,
      << 83, 71, 86, 115, 98, 71, 56, 61 >>,
      << 74, 66, 83, 87, 89, 51, 68, 80 >>,
      << 85, 114, 121, 121, 98 >>,
      << 73, 100, 109, 109, 110 >>,
      << 53, 48, 49 >>,
      << 55, 55, 55 >>,
      << 60, 126, 56, 55, 99, 85, 82, 68, 93, 105, 44, 34, 69, 98, 111, 56, 48,
         126, 62 >>,
      << 46, 46, 46, 46, 32, 46, 46 >>,
      << 37, 52, 49 >>,
      << 52, 56, 54, 53, 54, 99, 54, 99, 54, 102 >>,
      << 48, 49, 48, 48, 49, 48, 48, 48 >>,
      << 92, 117, 48, 48, 52, 49 >>,
      << 111, 108, 108, 101, 72 >> }

InitDecoders ==
    /\ cfg = [paths |-> << >>, pattern |-> << >>, caseSensitive |-> TRUE,
              workers |-> 1, depth |-> 0, before |-> 0, after |-> 0,
              mode |-> "plain", entropyThreshold |-> 0, magicTypes |-> << >>]
    /\ env = [stdin |-> [ok |-> TRUE, data |-> << >>],
              fs |-> [f \in Files |-> Missing]]
    /\ InitRun
    /\ decIn \in DecoderInputs
    /\ decName = ""
    /\ decRes = Err
    /\ tui = NoTUI

\* decoder(input) for one registry entry, as searchBFS calls it
ApplyDecoder ==
    /\ \E name \in DecoderNames :
         /\ decName' = name
         /\ decRes' = Decode(name, decIn)
    /\ UNCHANGED << decIn, tui, runVars >>

NextDecoders == ApplyDecoder

SpecDecoders == InitDecoders /\ [][NextDecoders]_vars

\* no input of DecoderInputs leaves the translated part of the decoders
DecodersModelled == decRes.st # "unmodelled"

(***************************************************************************)
(* A run over one file with the gates of processFile switched on           *)
(***************************************************************************)

\* largest -entropy-threshold, in whole bits
MaxThreshold == 2

\* file contents whose bytes are equally frequent: 1, 2 or 4 distinct bytes
GateContents ==
    { << >>, << 9, 9, 9, 9 >>, << 9, 10, 9, 10 >>, << 35, 33 >>,
      << 9, 10, 11, 12 >>, << 35, 33, 9, 10 >> }

GateFiles ==
    { [kind |-> "file", readable |-> TRUE, data |-> d] : d \in GateContents }
    \cup { [kind |-> "file", readable |-> FALSE, data |-> << >>] }

\* flagrep -entropy-threshold T -magic M PATTERN [-] f1
InitGates ==
    /\ cfg \in [paths : {<< "f1" >>, << "-", "f1" >>}, pattern : {<< >>, Tab},
                caseSensitive : {TRUE}, workers : {1}, depth : {0}, before : {0},
                after : {0}, mode : {"plain", "tui"},
                entropyThreshold : 0..MaxThreshold,
                magicTypes : {<< >>, << "SCRIPT" >>}]
    /\ env \in [stdin : {[ok |-> TRUE, data |-> TabNewline],
                         [ok |-> FALSE, data |-> << >>]},
                fs : {[f \in Files |-> IF f = "f1" THEN g ELSE Missing]
                        : g \in GateFiles}]
    /\ InitRun
    /\ InitDec

SpecGates == InitGates /\ [][NextFiles]_vars

(***************************************************************************)
(* Functions on their own: an input is drawn, the function is applied once *)
(* (decIn: the input, decName: the function applied, decRes: its result)   *)
(***************************************************************************)

\* the sequences over S of length at most n
SeqsUpTo(S, n) == UNION {[1..k -> S] : k \in 0..n}

\* no search is running
InitIdle ==
    /\ cfg = [paths |-> << >>, pattern |-> << >>, caseSensitive |-> TRUE,
              workers |-> 1, depth |-> 0, before |-> 0, after |-> 0,
              mode |-> "plain", entropyThreshold |-> 0, magicTypes |-> << >>]
    /\ env = [stdin |-> [ok |-> TRUE, data |-> << >>],
              fs |-> [f \in Files |-> Missing]]
    /\ InitRun

\* longest -magic list
MaxFilter == 2

\* entries of a -magic list
FilterNames == { "ELF", "TAR", "PDF", "unknown" }

\* data that carries the magic bytes of sig at its offset, behind zero bytes
Padded(sig) ==
    [i \in 1..(sig.offset + Len(sig.magic)) |->
        IF i <= sig.offset THEN 0 ELSE sig.magic[i - sig.offset]]

\* data with its first bytes replaced by magic
Overlay(data, magic) ==
    [i \in 1..Len(data) |-> IF i <= Len(magic) THEN magic[i] ELSE data[i]]

\* for every signature: data that carries it, the same data without its last
\* byte, and data that carries it in front of the TAR signature at offset 257
MagicInputs ==
    LET sigs == {magicSignatures[i] : i \in 1..Len(magicSignatures)}
        tar  == CHOOSE s \in sigs : s.name = "TAR"
    IN  { << >> }
        \cup { Padded(s) : s \in sigs }
        \cup { SubSeq(Padded(s), 1, Len(Padded(s)) - 1) : s \in sigs }
        \cup { Overlay(Padded(tar), s.magic) : s \in sigs \ {tar} }

InitMagic ==
    /\ InitIdle
    /\ decIn \in [data : MagicInputs, filter : SeqsUpTo(FilterNames, MaxFilter)]
    /\ decName = ""
    /\ decRes = Err
    /\ tui = NoTUI

\* DetectMagic(data) and MatchesMagicFilter(data, filter), as processFile
\* calls them
ApplyMagic ==
    /\ decName = ""
    /\ decName' = "MatchesMagicFilter"
    /\ decRes' = [detected |-> DetectMagic(decIn.data),
                  admitted |-> MatchesMagicFilter(decIn.data, decIn.filter)]
    /\ UNCHANGED << decIn, tui, runVars >>

SpecMagic == InitMagic /\ [][ApplyMagic]_vars

(***************************************************************************)
(* Run with no path, then Run with the path "-", on the same standard      *)
(* input (decName: "Run" once the first call has returned, decRes: what    *)
(* the first call did)                                                     *)
(***************************************************************************)

\* what a call of Run did with standard input: the match records of its
\* "(stdin)" searches and its return value
Outcome ==
    [records |-> {[i \in 1..Len(h.records) |-> h.records[i].rec]
                    : h \in {g \in history : g.path = "(stdin)"}},
     err |-> runErr]

\* flagrep PATTERN < input, without decoding
InitTwice ==
    /\ cfg \in [paths : {<< >>}, pattern : Patterns, caseSensitive : BOOLEAN,
                workers : {1}, depth : {0}, before : 0..MaxContext,
                after : 0..MaxContext, mode : Modes,
                entropyThreshold : {0}, magicTypes : {<< >>}]
    /\ env \in [stdin : [ok : {TRUE}, data : StdinInputs]
                        \cup {[ok |-> FALSE, data |-> << >>]},
                fs : {[f \in Files |-> Missing]}]
    /\ InitRun
    /\ InitDec

\* the first call has returned: a second Searcher with the path list ["-"]
\* is run on the same standard input
RunAgain ==
    /\ ~crashed /\ pc[0] = "returned" /\ cfg.paths = << >> /\ decName = ""
    /\ decName' = "Run"
    /\ decRes' = Outcome
    /\ cfg' = [cfg EXCEPT !.paths = << "-" >>]
    /\ pc' = [p \in Procs |-> IF p = 0 THEN "start" ELSE "none"]
    /\ pathIdx' = 1
    /\ offered' = ""
    /\ closed' = FALSE
    /\ wg' = 0
    /\ wfile' = [p \in Procs |-> NoFile]
    /\ unit' = [p \in Procs |-> NoUnit]
    /\ queue' = [p \in Procs |-> << >>]
    /\ dying' = [p \in Procs |-> FALSE]
    /\ pending' = [p \in Procs |-> << >>]
    /\ snap' = [p \in Procs |-> << >>]
    /\ collector' = << >>
    /\ stdout' = << >>
    /\ emitted' = [p \in Procs |-> << >>]
    /\ history' = {}
    /\ received' = << >>
    /\ processed' = {}
    /\ stdinRead' = FALSE
    /\ runErr' = FALSE
    /\ dequeued' = [p \in Procs |-> 0]
    /\ UNCHANGED << env, crashed, decIn, tui >>

NextTwice ==
    \/ RunStart
    \/ StdinOnly
    \/ StdinPath
    \/ Close
    \/ Wait
    \/ RunAgain
    \/ \E w \in Workers : WorkerExit(w)
    \/ \E p \in Procs : Visit(p) \/ AddRead(p) \/ AddWrite(p) \/ SearchDone(p)

SpecTwice == InitTwice /\ [][NextTwice]_vars

(***************************************************************************)
(* walk on a directory tree.  A node is [name, dir, kids]; the kids of a   *)
(* directory stand in lexical order, the order in which filepath.Walk      *)
(* visits them.  A path is the sequence of its components.                 *)
(***************************************************************************)

\* deepest nesting of directories below the root
MaxTreeDepth == 1

File(name) == [name |-> name, dir |-> FALSE, kids |-> << >>]

\* the readable directories called name with at most d levels below them: an
\* optional directory ".git", an optional file "a", an optional directory "sub"
RECURSIVE Dirs(_, _)
Dirs(name, d) ==
    LET opt(S) == {<< >>} \cup {<< x >> : x \in S}
        git == IF d = 0 THEN {<< >>} ELSE opt(Dirs(".git", d - 1))
        sub == IF d = 0 THEN {<< >>} ELSE opt(Dirs("sub", d - 1))
    IN  { [name |-> name, dir |-> TRUE, kids |-> g \o f \o s]
            : g \in git, f \in opt({File("a")}), s \in sub }

\* the walk function of filepath.Walk returns filepath.SkipDir for every
\* directory but the root
SkipsDirBelowRoot(base, isRoot, recursive, excluded) ==
    ~isRoot /\ (base \in excluded \/ ~recursive)

\* the walk function returns filepath.SkipDir for a directory: its base name
\* is excluded, or recursion is off and it is not the root
SkipsDir(base, isRoot, recursive, excluded) ==
    \/ base \in excluded
    \/ ~recursive /\ ~isRoot

\* filepath.Walk with the walk function of Searcher.walk, from node on: the
\* paths sent on fileChan, in order
RECURSIVE WalkFrom(_, _, _, _, _)
WalkFrom(node, path, isRoot, recursive, excluded) ==
    IF ~node.dir THEN << path >>
    ELSE IF SkipsDir(node.name, isRoot, recursive, excluded) THEN << >>
    ELSE Flatten([k \in 1..Len(node.kids) |->
                    WalkFrom(node.kids[k], Append(path, node.kids[k].name),
                             FALSE, recursive, excluded)])

\* Searcher.walk(root, fileChan) for a root that exists: a root that is not a
\* directory is sent itself
walk(root, recursive, excludedDirs) ==
    IF ~root.dir THEN << << root.name >> >>
    ELSE WalkFrom(root, << root.name >>, TRUE, recursive,
                  {excludedDirs[i] : i \in 1..Len(excludedDirs)})

\* -exclude-dir lists
ExcludeLists == { << >>, << ".git" >>, << "d" >>, << ".git", "sub" >> }

InitWalk ==
    /\ InitIdle
    /\ decIn \in [root : Dirs("d", MaxTreeDepth) \cup {File("d")},
                  recursive : BOOLEAN, excludedDirs : ExcludeLists]
    /\ decName = ""
    /\ decRes = Err
    /\ tui = NoTUI

\* s.walk(path, fileChan), as Run calls it
ApplyWalk ==
    /\ decName = ""
    /\ decName' = "walk"
    /\ decRes' = Ok(walk(decIn.root, decIn.recursive, decIn.excludedDirs))
    /\ UNCHANGED << decIn, tui, runVars >>

SpecWalk == InitWalk /\ [][ApplyWalk]_vars

(***************************************************************************)
(* Single decoders on families of inputs                                   *)
(***************************************************************************)

\* longest string of letters
MaxLetters == 2

\* longest string of arbitrary bytes
MaxBytes == 2

\* longest Base64 payload
MaxPayload == 3

\* 'A' 'M' 'N' 'Z' 'a' 'm' 'n' 'z'
LetterBytes == { 65, 77, 78, 90, 97, 109, 110, 122 }

\* NUL, tab, 'A', a UTF-8 continuation byte, a byte that never occurs in UTF-8
RawBytes == { 0, 9, 65, 128, 255 }

\* newline, space, 'A', '~'
PayloadBytes == { 10, 32, 65, 126 }

Payloads == SeqsUpTo(PayloadBytes, MaxPayload)

\* the character of a 6-bit value in the standard alphabet
StdChar(v) ==
    IF v < 26 THEN 65 + v
    ELSE IF v < 52 THEN 97 + (v - 26)
    ELSE IF v < 62 THEN 48 + (v - 52)
    ELSE IF v = 62 THEN 43 ELSE 47

\* the standard padded Base64 encoding (RFC 4648) of p
RECURSIVE StdEncode(_)
StdEncode(p) ==
    IF p = << >> THEN << >>
    ELSE LET n    == Min2(3, Len(p))
             b(i) == IF i <= n THEN p[i] ELSE 0
             val  == b(1) * 65536 + b(2) * 256 + b(3)
         IN  << StdChar(val \div 262144), StdChar((val \div 4096) % 64),
                IF n >= 2 THEN StdChar((val \div 64) % 64) ELSE 61,
                IF n = 3 THEN StdChar(val % 64) ELSE 61 >>
             \o StdEncode(SubSeq(p, n + 1, Len(p)))

\* "1" "8" "101" "377" "400" "501" "777" "+65"
OctalInputs ==
    { << 49 >>, << 56 >>, << 49, 48, 49 >>, << 51, 55, 55 >>, << 52, 48, 48 >>,
      << 53, 48, 49 >>, << 55, 55, 55 >>, << 43, 54, 53 >> }

CodecInputs ==
    SeqsUpTo(LetterBytes, MaxLetters) \cup SeqsUpTo(RawBytes, MaxBytes)
        \cup {StdEncode(p) : p \in Payloads} \cup OctalInputs

\* the registry entries that are applied to these inputs
CodecNames == { "reverse", "rot13", "atbash", "xor_bruteforce", "octal", "base64" }

InitCodec ==
    /\ InitIdle
    /\ decIn \in CodecInputs
    /\ decName = ""
    /\ decRes = Err
    /\ tui = NoTUI

\* decoder(input) for one registry entry, applied once
ApplyCodec ==
    /\ decName = ""
    /\ \E name \in CodecNames :
         /\ decName' = name
         /\ decRes' = Decode(name, decIn)
    /\ UNCHANGED << decIn, tui, runVars >>

SpecCodec == InitCodec /\ [][ApplyCodec]_vars

(***************************************************************************)
(* main: the context flags                                                 *)
(***************************************************************************)

\* largest value given to -A, -B and -C
MaxFlag == 2

\* flag.IntVar accepts every integer
FlagValues == -1..MaxFlag

\* a flag as given on the command line, or left out
Flags == {[set |-> FALSE, val |-> 0]} \cup [set : {TRUE}, val : FlagValues]

\* DefaultConfig(): the context fields
DefaultConfig == [BeforeContext |-> 10, AfterContext |-> 30, Context |-> 0]

\* LoadConfig(): the defaults, or the defaults overwritten by the fields of
\* a configuration file
Configs ==
    { DefaultConfig,
      [DefaultConfig EXCEPT !.BeforeContext = 0, !.AfterContext = 0],
      [DefaultConfig EXCEPT !.Context = 1],
      [BeforeContext |-> 0, AfterContext |-> 0, Context |-> 1] }

\* flag.IntVar(&v, name, def, ...) after flag.Parse()
FlagValue(f, def) == IF f.set THEN f.val ELSE def

\* "if context > 0 { if afterContext == 0 { afterContext = context } ... }"
SeedContext(own, context) == IF context > 0 /\ own = 0 THEN context ELSE own

\* the fallback to 10 and 30
UsesBuiltin(after, before, context, config) ==
    after = 0 /\ before = 0 /\ context = 0
        /\ config.AfterContext = 0 /\ config.BeforeContext = 0

\* beforeContext and afterContext as main hands them to NewSearcher
ContextArgs(config, A, B, C) ==
    LET context == FlagValue(C, config.Context)
        after   == SeedContext(FlagValue(A, config.AfterContext), context)
        before  == SeedContext(FlagValue(B, config.BeforeContext), context)
    IN  IF UsesBuiltin(after, before, context, config)
        THEN [before |-> 10, after |-> 30]
        ELSE [before |-> before, after |-> after]

\* flagrep [-A a] [-B b] [-C c] PATTERN < input, before main has run: the
\* coordinator is in main, nothing of the Searcher exists yet
InitMain ==
    /\ cfg \in [paths : {<< >>}, pattern : {Tab}, caseSensitive : {TRUE},
                workers : {1}, depth : {0}, before : {0}, after : {0},
                mode : Modes, entropyThreshold : {0}, magicTypes : {<< >>}]
    /\ env = [stdin |-> [ok |-> TRUE, data |-> Tabs],
              fs |-> [f \in Files |-> Missing]]
    /\ pc = [p \in Procs |-> IF p = 0 THEN "main" ELSE "none"]
    /\ pathIdx = 1
    /\ offered = ""
    /\ closed = FALSE
    /\ wg = 0
    /\ wfile = [p \in Procs |-> NoFile]
    /\ unit = [p \in Procs |-> NoUnit]
    /\ queue = [p \in Procs |-> << >>]
    /\ dying = [p \in Procs |-> FALSE]
    /\ pending = [p \in Procs |-> << >>]
    /\ snap = [p \in Procs |-> << >>]
    /\ collector = << >>
    /\ stdout = << >>
    /\ emitted = [p \in Procs |-> << >>]
    /\ history = {}
    /\ received = << >>
    /\ processed = {}
    /\ crashed = FALSE
    /\ stdinRead = FALSE
    /\ runErr = FALSE
    /\ dequeued = [p \in Procs |-> 0]
    /\ decIn \in [config : Configs, A : Flags, B : Flags, C : Flags]
    /\ decName = ""
    /\ decRes = Err
    /\ tui = NoTUI

\* main up to NewSearcher(...); searcher.Run() follows
Main ==
    /\ pc[0] = "main"
    /\ pc' = [pc EXCEPT ![0] = "start"]
    /\ decName' = "main"
    /\ LET args == ContextArgs(decIn.config, decIn.A, decIn.B, decIn.C)
       IN  cfg' = [cfg EXCEPT !.before = args.before, !.after = args.after]
    /\ UNCHANGED << env, pathIdx, offered, closed, wg, wfile, unit, queue,
                    dying, pending, snap, collector, stdout, emitted, history,
                    received, processed, crashed, stdinRead, runErr, dequeued,
                    decIn, decRes, tui >>

NextMain ==
    \/ Main
    \/ RunStart
    \/ StdinOnly
    \/ Visit(0)
    \/ AddRead(0)
    \/ AddWrite(0)
    \/ SearchDone(0)

SpecMain == InitMain /\ [][NextMain]_vars

(***************************************************************************)
(* The same search under two iteration orders of the registry              *)
(***************************************************************************)

\* the keys of s.Decoders in the order of the map literal of getDecoders
LiteralOrder ==
    << "reverse", "space_removal", "base64", "base64_url", "base32",
       "hex_with_spaces", "hex_without_spaces", "hex_with_prefix", "rot13",
       "rot47", "binary", "octal", "url", "html", "xor_bruteforce", "atbash",
       "morse", "unicode_escape", "base85", "caesar" >>

\* two of the orders in which "range s.Decoders" can visit the keys
RegistryOrders ==
    { LiteralOrder,
      [i \in 1..Len(LiteralOrder) |-> LiteralOrder[Len(LiteralOrder) + 1 - i]] }

\* the lines 229-243 of searchBFS for one state when the range statement
\* visits the keys in the given order
RangeIn(state, res, order) ==
    LET keep(name) == Accepted(state.content, res[name])
        keys == SelectSeq(order, keep)
    IN  [unmodelled |-> \E name \in DecoderNames : res[name].st = "unmodelled",
         panic |-> \E name \in DecoderNames : res[name].st = "panic",
         successors |->
            { [i \in 1..Len(keys) |-> Successor(state, keys[i], res[keys[i]].out)] }]

GrowIn(state, pm, c, order) ==
    IF ~pm.panic /\ ~ReachedMaxDepth(state.depth, c.depth)
    THEN RangeIn(state, Results(state.content), order)
    ELSE NoRange

\* one loop iteration of searchBFS in a run whose range statements all visit
\* the registry in the order decIn
VisitIn(p) ==
    /\ ~crashed /\ pc[p] = "visit" /\ queue[p] # << >>
    /\ Iterate(p, Head(queue[p]), Report(unit[p].path, Head(queue[p]), cfg),
               GrowIn(Head(queue[p]), Report(unit[p].path, Head(queue[p]), cfg),
                      cfg, decIn),
               << >>)
    /\ UNCHANGED << cfg, env, pathIdx, offered, closed, wg, wfile, unit, snap,
                    collector, history, received, processed, stdinRead, runErr,
                    decVars >>

\* ">~<": its reversal "<~>" makes the base85 decoder panic
Tricky == << 62, 126, 60 >>

\* "<"
Less == << 60 >>

\* the (chain, offset, match) records a search has emitted so far
Triples ==
    [i \in 1..Len(emitted[0]) |->
       << emitted[0][i].rec.decoders, emitted[0][i].rec.offset,
          emitted[0][i].rec.match >>]

\* flagrep -depth D PATTERN < input, with one of the iteration orders
InitOrders ==
    /\ cfg \in [paths : {<< >>}, pattern : {Tab, Less}, caseSensitive : {TRUE},
                workers : {1}, depth : 0..MaxDepth, before : {0}, after : {0},
                mode : {"plain"}, entropyThreshold : {0}, magicTypes : {<< >>}]
    /\ env \in [stdin : [ok : {TRUE}, data : {Tabs, Tricky}],
                fs : {[f \in Files |-> Missing]}]
    /\ InitRun
    /\ decIn \in RegistryOrders
    /\ decName = ""
    /\ decRes = << >>
    /\ tui = NoTUI

\* the run is over, by return or by panic: the same command is run again on
\* the same input, with one of the iteration orders
Rerun ==
    /\ decName = "" /\ (crashed \/ pc[0] = "returned")
    /\ decName' = "Run"
    /\ decRes' = Triples
    /\ decIn' \in RegistryOrders
    /\ pc' = [p \in Procs |-> IF p = 0 THEN "start" ELSE "none"]
    /\ pathIdx' = 1
    /\ offered' = ""
    /\ closed' = FALSE
    /\ wg' = 0
    /\ wfile' = [p \in Procs |-> NoFile]
    /\ unit' = [p \in Procs |-> NoUnit]
    /\ queue' = [p \in Procs |-> << >>]
    /\ dying' = [p \in Procs |-> FALSE]
    /\ pending' = [p \in Procs |-> << >>]
    /\ snap' = [p \in Procs |-> << >>]
    /\ collector' = << >>
    /\ stdout' = << >>
    /\ emitted' = [p \in Procs |-> << >>]
    /\ history' = {}
    /\ received' = << >>
    /\ processed' = {}
    /\ crashed' = FALSE
    /\ stdinRead' = FALSE
    /\ runErr' = FALSE
    /\ dequeued' = [p \in Procs |-> 0]
    /\ UNCHANGED << cfg, env, tui >>

NextOrders ==
    \/ RunStart
    \/ StdinOnly
    \/ VisitIn(0)
    \/ SearchDone(0)
    \/ Rerun

SpecOrders == InitOrders /\ [][NextOrders]_vars

(***************************************************************************)
(* Runs with -workers 0 and below                                          *)
(***************************************************************************)

\* flag.Int("workers", ...) accepts every integer, and NewSearcher stores it
\* in s.Concurrency unchanged
WorkerCounts == -1..1

PathLists == { << "f1" >>, << "-", "f1" >>, << "f2", "f1" >>, << "-" >> }

\* flagrep -workers N PATTERN path...
InitFew ==
    /\ cfg \in [paths : PathLists, pattern : {Tab}, caseSensitive : {TRUE},
                workers : WorkerCounts, depth : {0}, before : {0}, after : {0},
                mode : {"plain", "tui"}, entropyThreshold : {0},
                magicTypes : {<< >>}]
    /\ env \in [stdin : {[ok |-> TRUE, data |-> TabNewline],
                         [ok |-> FALSE, data |-> << >>]},
                fs : [Files -> FileStates \cup {Missing}]]
    /\ InitRun
    /\ InitDec

SpecFew == InitFew /\ [][NextFiles]_vars

(***************************************************************************)
(* The interactive browser of src/tui.go.  The TUI object is the variable  *)
(* tui; decIn holds the matches the searcher collected and decName the     *)
(* position of main: "" before NewTUI, "tui" inside TUI.Run's loop, "done" *)
(* after Run returned.  One loop iteration renders with the terminal       *)
(* height of that moment and then handles one read of the keyboard.        *)
(* statusMessage, oldTermios and searchHistory influence no index and are  *)
(* left out.  Indices are zero-based as in the source: element i of a      *)
(* slice s is s[i + 1].                                                    *)
(***************************************************************************)
MaxQuery == 2

\* heights that give one, two and six items per page
TermHeights == {1, 10, 24}

\* one read of os.Stdin into the three-byte buffer: the bytes of one key
Keys ==
    {<< 113 >>, << 106 >>, << 107 >>, << 103 >>, << 71 >>, << 110 >>, << 112 >>,
     << 47 >>, << 63 >>, << 10 >>, << 27 >>, << 127 >>, << 121 >>, << 111 >>,
     << 101 >>, << 104 >>, << 100 >>, << 74 >>,
     << 27, 91, 65 >>, << 27, 91, 66 >>, << 27, 91, 67 >>, << 27, 91, 68 >>,
     << 27, 91, 53 >>, << 27, 91, 54 >>}

TUIMatch(file, match, context) == [File |-> file, Match |-> match, Context |-> context]

\* the match lists the searcher hands over: none, one, three
MatchLists ==
    {<< >>,
     << TUIMatch(<< 113 >>, << 74 >>, << 74, 110 >>) >>,
     << TUIMatch(<< 113 >>, << 74 >>, << 74, 110 >>),
        TUIMatch(<< 71 >>, << 106 >>, << 106 >>),
        TUIMatch(<< 112 >>, << 107 >>, << 107, 111 >>) >>}

\* strings.ToLower on ASCII bytes
ToLower(s) == [i \in 1..Len(s) |-> IF s[i] \in 65..90 THEN s[i] + 32 ELSE s[i]]

\* strings.Contains
Contains(s, sub) ==
    \E i \in 0..(Len(s) - Len(sub)) : SubSeq(s, i + 1, i + Len(sub)) = sub

\* indices := make([]int, len(matches)); indices[i] = i
AllIndices(list) == [i \in 1..Len(list) |-> i - 1]

NewTUI(list) ==
    [matches |-> list, filteredIdx |-> AllIndices(list), currentIndex |-> 0,
     pageSize |-> 8, running |-> TRUE, searchMode |-> FALSE, searchQuery |-> << >>,
     helpMode |-> FALSE, panic |-> FALSE]

\* s[i] of a Go slice is in range
InRange(s, i) == 0 <= i /\ i < Len(s)

\* matchIdx := t.filteredIdx[i]; match := t.matches[matchIdx]
IndexPanics(t, i) ==
    \/ ~InRange(t.filteredIdx, i)
    \/ ~InRange(t.matches, t.filteredIdx[i + 1])

ItemsPerPage(height) == Max2(Max2(height - 4, 3) \div 3, 1)

\* Go's integer division truncates toward zero
GoDiv(a, b) == IF a >= 0 THEN a \div b ELSE -((-a) \div b)

render(t, height) ==
    LET pageSize == ItemsPerPage(height)
        startIdx == GoDiv(t.currentIndex, pageSize) * pageSize
        endIdx   == Min2(startIdx + pageSize, Len(t.filteredIdx))
    IN  [t EXCEPT !.pageSize = pageSize,
                  !.panic = Len(t.filteredIdx) # 0
                            /\ \E i \in startIdx..(endIdx - 1) : IndexPanics(t, i)]

moveUp(t) ==
    IF t.currentIndex > 0 THEN [t EXCEPT !.currentIndex = @ - 1] ELSE t

moveDown(t) ==
    IF t.currentIndex < Len(t.filteredIdx) - 1 THEN [t EXCEPT !.currentIndex = @ + 1] ELSE t

\* nextPage without the clamp to the last item
nextPageUnclamped(t) ==
    [t EXCEPT !.currentIndex = @ + t.pageSize]

nextPage(t) ==
    LET moved   == t.currentIndex + t.pageSize
        clamped == IF moved >= Len(t.filteredIdx) THEN Len(t.filteredIdx) - 1 ELSE moved
    IN  [t EXCEPT !.currentIndex = IF clamped < 0 THEN 0 ELSE clamped]

prevPage(t) ==
    [t EXCEPT !.currentIndex = Max2(@ - t.pageSize, 0)]

clearFilter(t) ==
    [t EXCEPT !.searchQuery = << >>, !.filteredIdx = AllIndices(t.matches),
              !.currentIndex = 0]

\* the match at index i (zero-based) passes the filter
MatchesQuery(m, query) ==
    \/ Contains(ToLower(m.File), query)
    \/ Contains(ToLower(m.Match), query)
    \/ Contains(ToLower(m.Context), query)

RECURSIVE FilterFrom(_, _, _)
FilterFrom(list, query, i) ==
    IF i >= Len(list) THEN << >>
    ELSE (IF MatchesQuery(list[i + 1], query) THEN << i >> ELSE << >>)
         \o FilterFrom(list, query, i + 1)

applyFilter(t) ==
    IF t.searchQuery = << >> THEN clearFilter(t)
    ELSE [t EXCEPT !.filteredIdx = FilterFrom(t.matches, ToLower(t.searchQuery), 0),
                   !.currentIndex = 0]

\* showExpanded, copyToClipboard, openInEditor, showHexView and
\* showDecoderPlayground: the guard, then the two index expressions
showExpanded(t) ==
    IF Len(t.filteredIdx) = 0 \/ t.currentIndex >= Len(t.filteredIdx) THEN t
    ELSE [t EXCEPT !.panic = IndexPanics(t, t.currentIndex)]

handleSearchInput(t, char) ==
    CASE char = 27 -> [t EXCEPT !.searchMode = FALSE]
      [] char \in {10, 13} -> applyFilter([t EXCEPT !.searchMode = FALSE])
      [] char \in {127, 8} ->
            IF Len(t.searchQuery) > 0
            THEN [t EXCEPT !.searchQuery = SubSeq(@, 1, Len(@) - 1)]
            ELSE t
      [] OTHER ->
            IF char >= 32 /\ char < 127
            THEN [t EXCEPT !.searchQuery = Append(@, char)]
            ELSE t

escapeSequence(t, b) ==
    CASE b = 65 -> moveUp(t)
      [] b = 66 -> moveDown(t)
      [] b = 67 -> showExpanded(t)
      [] b = 53 -> prevPage(t)
      [] b = 54 -> nextPage(t)
      [] OTHER -> t

singleKey(t, b) ==
    CASE b \in {113, 81} -> [t EXCEPT !.running = FALSE]
      [] b \in {106, 74} -> moveDown(t)
      [] b \in {107, 75} -> moveUp(t)
      [] b = 103 -> [t EXCEPT !.currentIndex = 0]
      [] b = 71 -> IF Len(t.filteredIdx) > 0
                   THEN [t EXCEPT !.currentIndex = Len(t.filteredIdx) - 1]
                   ELSE t
      [] b \in {10, 13} -> showExpanded(t)
      [] b \in {110, 78} -> nextPage(t)
      [] b \in {112, 80} -> prevPage(t)
      [] b = 47 -> [t EXCEPT !.searchMode = TRUE, !.searchQuery = << >>]
      [] b = 27 -> clearFilter(t)
      [] b = 63 -> [t EXCEPT !.helpMode = TRUE]
      [] b \in {121, 89, 111, 79, 104, 72, 100, 68} -> showExpanded(t)
      [] OTHER -> t

handleInput(t, buf) ==
    IF t.helpMode THEN [t EXCEPT !.helpMode = FALSE]
    ELSE IF t.searchMode THEN handleSearchInput(t, buf[1])
    ELSE IF buf[1] = 27 /\ Len(buf) >= 3 THEN escapeSequence(t, buf[3])
    ELSE singleKey(t, buf[1])

\* one iteration of the loop of TUI.Run
LoopBody(t, height, buf) ==
    LET shown == IF t.helpMode THEN t ELSE render(t, height)
    IN  IF shown.panic THEN shown ELSE handleInput(shown, buf)

InitTUI ==
    /\ InitIdle
    /\ decIn \in MatchLists
    /\ decName = ""
    /\ decRes = Err
    /\ tui = NoTUI

\* main: tui := NewTUI(searcher.MatchCollector.Matches); tui.Run() up to the loop
StartTUI ==
    /\ decName = ""
    /\ tui' = NewTUI(decIn)
    /\ decName' = IF Len(decIn) = 0 THEN "done" ELSE "tui"
    /\ UNCHANGED << decIn, decRes, runVars >>

\* for t.running { render or renderHelp; handleInput }
TUILoop ==
    /\ decName = "tui"
    /\ tui.running
    /\ ~tui.panic
    /\ \E height \in TermHeights, buf \in Keys :
          /\ ~(tui.searchMode /\ ~tui.helpMode /\ buf[1] \in 32..126
               /\ Len(tui.searchQuery) >= MaxQuery)
          /\ tui' = LoopBody(tui, height, buf)
    /\ UNCHANGED << decIn, decName, decRes, runVars >>

\* the loop ends when running is false
TUIQuit ==
    /\ decName = "tui"
    /\ ~tui.running
    /\ decName' = "done"
    /\ UNCHANGED << decIn, decRes, tui, runVars >>

NextTUI == StartTUI \/ TUILoop \/ TUIQuit

SpecTUI == InitTUI /\ [][NextTUI]_vars

(***************************************************************************)
(* Properties                                                              *)
(***************************************************************************)

\* the chain lengths of the records a goroutine has emitted in its search
ChainLengths(p) == [i \in 1..Len(emitted[p]) |-> Len(emitted[p][i].rec.decoders)]

\* C1: every match record emitted by searchBFS carries a decoder chain of
\* length <= D, and no state of depth > D is ever in the queue
C1_DepthBound ==
    \A p \in Procs :
      /\ \A i \in 1..Len(emitted[p]) : ChainLengths(p)[i] <= cfg.depth
      /\ \A i \in 1..Len(queue[p]) : queue[p][i].depth <= cfg.depth

\* a search with D = MaxDepth has emitted a record whose chain has length D
C1_Witness ==
    /\ cfg.depth = MaxDepth
    /\ \E i \in 1..Len(emitted[0]) : ChainLengths(0)[i] = MaxDepth

\* C2: within one BFS run the chain lengths of the emitted records never
\* decrease: no record with a shorter chain follows one with a longer chain
C2_DepthNondecreasing ==
    \A p \in Procs :
      \A i \in 1..Len(emitted[p]) : \A j \in i..Len(emitted[p]) :
        ChainLengths(p)[i] <= ChainLengths(p)[j]

\* one search has reported a match of a one-decoder chain and, after it, a
\* match of a two-decoder chain
C2_Witness ==
    \E i \in 1..Len(emitted[0]) : \E j \in i..Len(emitted[0]) :
      ChainLengths(0)[i] = 1 /\ ChainLengths(0)[j] = 2

\* the three conditions on one queued state of a search with root content root
StateOk(root, state) ==
    /\ Len(state.appliedDecoders) = state.depth
    /\ \A k \in 1..Len(state.appliedDecoders) : state.appliedDecoders[k] \in DecoderNames
    /\ ApplyChain(root, state.appliedDecoders) = Ok(state.content)

\* C3: every state in a BFS queue has a chain as long as its depth, made of
\* registry keys, and the chain applied in order to the root content yields
\* the state's content
C3_QueueStates ==
    \A p \in Procs : \A i \in 1..Len(queue[p]) : StateOk(unit[p].root, queue[p][i])

\* the queue holds a state reached through two different decoders
C3_Witness ==
    \E i \in 1..Len(queue[0]) :
      /\ queue[0][i].depth = 2
      /\ queue[0][i].appliedDecoders[1] # queue[0][i].appliedDecoders[2]

\* the three conditions on one emitted record
RecordOk(e, c) ==
    /\ e.rec.offset >= 0 /\ e.rec.offset < Len(e.content)
    /\ e.rec.offset + Len(e.rec.match) <= Len(e.content)
    /\ Slice(e.content, e.rec.offset, e.rec.offset + Len(e.rec.match)) = e.rec.match
    /\ MatchAt(e.rec.match, 0, c.pattern, c.caseSensitive)
    /\ Len(e.rec.match) = Len(c.pattern)

\* C4: for every emitted record, produced from a state with content c, the
\* offset is a valid byte index into c, c[offset : offset+|match|] is the
\* match text and the pattern matches the match text
C4_RecordMatches ==
    \A p \in Procs : \A i \in 1..Len(emitted[p]) : RecordOk(emitted[p][i], cfg)

\* C5: one input unit yields at most 5 match records, however many decoded
\* states of it contain the pattern
C5_PerFileCap ==
    \A p \in Procs : Len(emitted[p]) <= maxMatchesPerFile

\* a receipt has been processed to the end by the worker that received it
Processed(r) == \E x \in processed : x.idx = r.idx /\ x.worker = r.worker

\* C6: with W >= 1 workers every path sent on the channel is received by
\* exactly one worker and fully processed by it, and Run eventually returns,
\* after all of them have been processed: a run never comes to a halt before
\* Run has returned with every sent path processed
C6_RunCompletes ==
    /\ \A i \in 1..Len(received) : \A j \in 1..Len(received) :
         received[i].idx = received[j].idx => i = j
    /\ pc[0] = "returned" => \A i \in 1..Len(received) : Processed(received[i])
    /\ CanStep \/ pc[0] = "returned"

\* how often a record occurs in a sequence
Occurrences(seq, rec) == Cardinality({i \in 1..Len(seq) : seq[i] = rec})

\* the records of a set of finished searches, one search after the other
RECURSIVE RecordsOf(_)
RecordsOf(searches) ==
    IF searches = {} THEN << >>
    ELSE LET h == CHOOSE x \in searches : TRUE
         IN  [i \in 1..Len(h.records) |-> h.records[i].rec]
             \o RecordsOf(searches \ {h})

\* the two sequences hold the same records the same number of times
SameRecords(a, b) ==
    /\ Len(a) = Len(b)
    /\ \A i \in 1..Len(a) : Occurrences(a, a[i]) = Occurrences(b, a[i])

\* C7: in TUI mode, once Run has returned the collector holds every emitted
\* record exactly once: none lost, none duplicated, none altered
C7_CollectorComplete ==
    (cfg.mode = "tui" /\ pc[0] = "returned") =>
      SameRecords(RecordsOf(history), collector)

\* C8: no registry decoder panics, whatever the input: it returns a decoded
\* string or an error
C8_DecodersTotal == decRes.st # "panic"

\* what a search reported, without the path it was run on
Report9(h) ==
    [i \in 1..Len(h.records) |->
       << h.records[i].rec.decoders, h.records[i].rec.match,
          h.records[i].rec.offset >>]

\* C9: two searches of the same input in one run, with the same pattern and
\* depth, emit the same records with the same chains in the same order
C9_Reproducible ==
    \A g \in history : \A h \in history :
      g.root = h.root => Report9(g) = Report9(h)

\* the size of the registry
RegistrySize == Cardinality(DecoderNames)

\* sum over d in 0..D of |registry|^d
RECURSIVE DequeueBound(_)
DequeueBound(d) == IF d = 0 THEN 1 ELSE Pow(RegistrySize, d) + DequeueBound(d - 1)

\* C10: searchBFS terminates, with the queue empty, after at most
\* sum over d in 0..D of |registry|^d states have been dequeued: a search
\* never dequeues more, and it never comes to a halt before it has returned
C10_Terminates ==
    /\ dequeued[0] <= DequeueBound(cfg.depth)
    /\ CanStep \/ (pc[0] = "returned" /\ queue[0] = << >>)

\* the Shannon entropy, in bits, of a content whose k distinct bytes are
\* equally frequent: log2(k); the empty content has entropy 0
UniformBits(data) ==
    LET k == Cardinality({data[i] : i \in 1..Len(data)})
    IN  CASE k <= 1 -> 0 [] k = 2 -> 1 [] k = 4 -> 2 [] k = 8 -> 3 [] k = 16 -> 4

\* the entropy gate lets the file at position idx of the path list through
EntropyAdmits(idx) ==
    \/ cfg.entropyThreshold = 0
    \/ UniformBits(Lookup(env.fs, cfg.paths[idx]).data) >= cfg.entropyThreshold

\* the file at position idx can be read and passes the magic filter
ReachesEntropyGate(idx) ==
    LET f == Lookup(env.fs, cfg.paths[idx])
    IN  /\ f.readable
        /\ \/ cfg.magicTypes = << >>
           \/ \E i \in 1..Len(cfg.magicTypes) : cfg.magicTypes[i] = DetectMagic(f.data)

\* the positions of the path list whose file the entropy gate holds back
HeldBack == {i \in 1..Len(cfg.paths) : cfg.paths[i] # "-" /\ ~EntropyAdmits(i)}

\* C11: a file that reaches the entropy gate is handed to searchBFS iff the
\* threshold is 0 or the entropy of its bytes is at least the threshold, and
\* a file below a positive threshold produces no match record, neither
\* printed nor collected
C11_EntropyGate ==
    /\ \A r \in processed :
         ReachesEntropyGate(r.idx) => (r.searched <=> EntropyAdmits(r.idx))
    /\ \A w \in Workers :
         pc[w] \in {"visit", "add"} => EntropyAdmits(wfile[w].idx)
    /\ \A i \in HeldBack :
         /\ \A k \in 1..Len(stdout) : stdout[k].file # cfg.paths[i]
         /\ \A k \in 1..Len(collector) : collector[k].file # cfg.paths[i]
         /\ \A h \in history : h.idx # i

\* processFile has returned without a search for a readable file of one
\* repeated byte that contains the pattern, and Run has returned
C11_Witness ==
    /\ pc[0] = "returned"
    /\ cfg.entropyThreshold > 0 /\ cfg.magicTypes = << >> /\ cfg.pattern = Tab
    /\ \E r \in processed :
         /\ ~r.searched
         /\ Lookup(env.fs, cfg.paths[r.idx]).data = << 9, 9, 9, 9 >>

\* the magic bytes of sig occur in data at the offset of sig
OccursAt(data, sig) ==
    /\ sig.offset + Len(sig.magic) <= Len(data)
    /\ \A k \in 1..Len(sig.magic) : data[sig.offset + k] = sig.magic[k]

\* the name of the first signature in table order that occurs in data
FirstName(data) ==
    LET n == Len(magicSignatures)
    IN  IF \A i \in 1..n : ~OccursAt(data, magicSignatures[i]) THEN "unknown"
        ELSE magicSignatures[CHOOSE i \in 1..n :
                                /\ OccursAt(data, magicSignatures[i])
                                /\ \A j \in 1..(i - 1) :
                                     ~OccursAt(data, magicSignatures[j])].name

\* C12: DetectMagic returns the name of the first signature in table order
\* whose bytes occur in the data at its offset, signatures that reach past
\* the end of the data being skipped, and "unknown" when there is none;
\* MatchesMagicFilter is true iff the filter is empty or holds that name
C12_MagicFilter ==
    decName = "MatchesMagicFilter" =>
      /\ decRes.detected = FirstName(decIn.data)
      /\ decRes.admitted <=>
           \/ decIn.filter = << >>
           \/ \E i \in 1..Len(decIn.filter) : decIn.filter[i] = FirstName(decIn.data)

\* data with "%PDF" at offset 0 and "ustar" at offset 257 is detected as TAR,
\* the earlier table entry, and admitted by a filter that names TAR
C12_Witness ==
    /\ decName = "MatchesMagicFilter"
    /\ Len(decIn.data) = 262 /\ SubSeq(decIn.data, 1, 4) = << 37, 80, 68, 70 >>
    /\ decIn.filter = << "PDF", "TAR" >>
    /\ decRes.detected = "TAR" /\ decRes.admitted

\* the positions of the path list that name a file which does not exist or
\* cannot be read
Unopenable ==
    {i \in 1..Len(cfg.paths) :
        cfg.paths[i] # "-" /\ ~Lookup(env.fs, cfg.paths[i]).readable}

\* C13: when a path named on the command line is not a directory and cannot
\* be opened, Run returns an error to main (the run ends with a non-zero
\* exit status)
C13_NamedFileFatal == (pc[0] = "returned" /\ Unopenable # {}) => runErr

\* C14: Run with an empty path list behaves as Run with the path list ["-"]:
\* on the same standard input the second call emits the same "(stdin)" match
\* records and returns the same value as the first
C14_SameAsDash == (decName = "Run" /\ pc[0] = "returned") => Outcome = decRes

\* the regular files below node, each with its path and the base names of the
\* directories from the root to its parent
RECURSIVE FilesBelow(_, _, _)
FilesBelow(node, path, above) ==
    IF ~node.dir THEN {[path |-> path, dirs |-> above]}
    ELSE UNION {FilesBelow(node.kids[k], Append(path, node.kids[k].name),
                           Append(above, node.name))
                  : k \in 1..Len(node.kids)}

\* the walker enters the k-th directory on the way to file f: it is the root
\* or recursion is enabled, and its base name is not excluded
Entered(f, k, in) ==
    /\ k = 1 \/ in.recursive
    /\ \A i \in 1..Len(in.excludedDirs) : in.excludedDirs[i] # f.dirs[k]

\* C15: for a root that is a directory the walker yields a regular file,
\* exactly once, iff every directory from the root to the file's parent is
\* entered; without recursion no file of a subdirectory is yielded, and no
\* file below an excluded directory is yielded
C15_WalkerYields ==
    (decName = "walk" /\ decIn.root.dir) =>
      LET files == FilesBelow(decIn.root, << decIn.root.name >>, << >>)
          out   == decRes.out
      IN  /\ \A f \in files :
                (\E i \in 1..Len(out) : out[i] = f.path)
                  <=> \A k \in 1..Len(f.dirs) : Entered(f, k, decIn)
          /\ \A i \in 1..Len(out) :
                /\ \E f \in files : f.path = out[i]
                /\ \A j \in 1..Len(out) : out[j] = out[i] => j = i
                /\ ~decIn.recursive => Len(out[i]) = 2
                /\ \A k \in 1..(Len(out[i]) - 1) :
                     \A e \in 1..Len(decIn.excludedDirs) :
                       decIn.excludedDirs[e] # out[i][k]

\* a recursive walk with ".git" excluded over a root that holds a file, a
\* directory ".git" with a file and a directory "sub" with a file
C15_Witness ==
    /\ decName = "walk"
    /\ decIn.recursive /\ decIn.excludedDirs = << ".git" >>
    /\ decIn.root.dir /\ Len(decIn.root.kids) = 3
    /\ \A k \in 1..3 : decIn.root.kids[k].dir => decIn.root.kids[k].kids # << >>
    /\ decRes.out = << << "d", "a" >>, << "d", "sub", "a" >> >>

\* C16: reverse(reverse(content)) = content for every content, byte
\* sequences that are not valid UTF-8 included
C16_ReverseTwice ==
    decName = "reverse" =>
      decRes.st = "ok" /\ reverseDecoder(decRes.out) = Ok(decIn)

\* s is made of ASCII letters
AsciiLetters(s) ==
    \A i \in 1..Len(s) : (s[i] >= 65 /\ s[i] <= 90) \/ (s[i] >= 97 /\ s[i] <= 122)

\* the bytes at position i of s and t are letters of the same case
SameCase(s, t, i) ==
    /\ (s[i] >= 65 /\ s[i] <= 90) <=> (t[i] >= 65 /\ t[i] <= 90)
    /\ (s[i] >= 97 /\ s[i] <= 122) <=> (t[i] >= 97 /\ t[i] <= 122)

\* C17: on a string of ASCII letters rot13 and atbash are involutions, and
\* both keep the length and the letter case of every position
C17_LetterInvolutions ==
    (decName \in {"rot13", "atbash"} /\ AsciiLetters(decIn)) =>
      /\ decRes.st = "ok"
      /\ Decode(decName, decRes.out) = Ok(decIn)
      /\ Len(decRes.out) = Len(decIn)
      /\ \A i \in 1..Len(decIn) : SameCase(decIn, decRes.out, i)

\* rot13 has turned "Na" into "An"
C17_Witness ==
    decName = "rot13" /\ decIn = << 78, 97 >> /\ decRes = Ok(<< 65, 110 >>)

\* b XOR k
XorKey(b, k) == [i \in 1..Len(b) |-> Xor(b[i], k)]

\* at least 80% of the bytes of s are printable: 32..126, tab, CR, LF
Mostly80(s) ==
    5 * Cardinality({i \in 1..Len(s) : s[i] \in (32..126) \cup {9, 10, 13}})
        >= 4 * Len(s)

\* C18: xor_bruteforce fails on the empty input; on a non-empty input it
\* succeeds iff some key in 1..255 makes at least 80% of the bytes printable,
\* and then returns the input XOR the smallest such key (key 0 is not tried,
\* and the loop ends after key 255)
C18_XorSmallestKey ==
    decName = "xor_bruteforce" =>
      LET keys == {k \in 1..255 : Mostly80(XorKey(decIn, k))}
      IN  IF decIn = << >> \/ keys = {} THEN decRes.st = "err"
          ELSE decRes = Ok(XorKey(decIn, CHOOSE k \in keys : \A j \in keys : k <= j))

\* "A" is returned as "@" (key 1, not key 0), and no key is found for the
\* bytes 0x00 0x80 of which one always has its high bit set
C18_Witness ==
    /\ decName = "xor_bruteforce"
    /\ \/ decIn = << 65 >> /\ decRes = Ok(<< 64 >>)
       \/ decIn = << 0, 128 >> /\ decRes.st = "err"

\* the value of a word of one to three octal digits, -1 for any other word
OctalValue(w) ==
    IF Len(w) \in 1..3 /\ \A i \in 1..Len(w) : w[i] \in 48..55
    THEN LET d(i) == w[i] - 48
         IN  CASE Len(w) = 1 -> d(1)
               [] Len(w) = 2 -> 8 * d(1) + d(2)
               [] Len(w) = 3 -> 64 * d(1) + 8 * d(2) + d(3)
    ELSE -1

\* C19: an input that is a single word which is not valid octal, or whose
\* octal value exceeds 0o377, makes the octal decoder fail: no byte is
\* produced from such a word
C19_OctalRange ==
    (/\ decName = "octal"
     /\ decIn # << >>
     /\ \A i \in 1..Len(decIn) : decIn[i] \notin {9, 10, 11, 12, 13, 32}
     /\ (OctalValue(decIn) = -1 \/ OctalValue(decIn) > 255))
      => decRes.st = "err"

\* C20 as stated: for every payload of printable bytes, the empty payload
\* included, base64 applied to its standard padded encoding returns it
C20_Base64AnyPayload ==
    decName = "base64" =>
      \A p \in Payloads : decIn = StdEncode(p) => decRes = Ok(p)

\* C20: for every non-empty payload of printable bytes, base64 applied to
\* its standard padded encoding returns exactly the payload
C20_Base64RoundTrip ==
    decName = "base64" =>
      \A p \in Payloads : (p # << >> /\ decIn = StdEncode(p)) => decRes = Ok(p)

\* base64 has turned "fn5+" into "~~~"
C20_Witness ==
    /\ decName = "base64"
    /\ decIn = << 102, 110, 53, 43 >>
    /\ decRes = Ok(<< 126, 126, 126 >>)

\* the bytes of s with every ASCII letter rotated by n places in its alphabet
RotateBy(s, n) ==
    [i \in 1..Len(s) |->
        IF s[i] >= 97 /\ s[i] <= 122 THEN 97 + ((s[i] - 97 + n) % 26)
        ELSE IF s[i] >= 65 /\ s[i] <= 90 THEN 65 + ((s[i] - 65 + n) % 26)
        ELSE s[i]]

\* C21: for every input with at least one ASCII letter and every shift n in
\* 1..25, the caesar decoder produces the rotation of the input by n as the
\* candidate of its single BFS edge
C21_CaesarAllShifts ==
    (/\ decName = "caesar"
     /\ \E i \in 1..Len(decIn) : AsciiLetters(<< decIn[i] >>))
      => \A n \in 1..25 : decRes = Ok(RotateBy(decIn, n))

\* C22: with the default configuration, -C N with N > 0 and neither -A nor
\* -B on the command line, the before-context and the after-context of the
\* search both equal N
C22_ContextSeedsBoth ==
    (/\ decName = "main"
     /\ decIn.config = DefaultConfig
     /\ decIn.C.set /\ decIn.C.val > 0
     /\ ~decIn.A.set /\ ~decIn.B.set)
      => cfg.before = decIn.C.val /\ cfg.after = decIn.C.val

\* the bounds of the context window of a hit at offset with |match| = len
WindowStart(offset) == IF offset - cfg.before > 0 THEN offset - cfg.before ELSE 0

WindowEnd(offset, len, content) ==
    IF offset + len + cfg.after < Len(content) THEN offset + len + cfg.after
    ELSE Len(content)

\* C26: for every value of -A and -B that the flags accept, every emitted
\* record has as context the substring of the content from
\* max(offset - ContextBefore, 0) to min(offset + |match| + ContextAfter,
\* |content|), with 0 <= start <= offset <= offset + |match| <= end <=
\* |content|, and no slice expression of printMatch is out of range
C26_ContextWindow ==
    /\ ~crashed
    /\ \A i \in 1..Len(emitted[0]) :
         LET e     == emitted[0][i]
             off   == e.rec.offset
             len   == Len(e.rec.match)
             start == WindowStart(off)
             end   == WindowEnd(off, len, e.content)
         IN  /\ 0 <= start /\ start <= off /\ off + len <= end
             /\ end <= Len(e.content)
             /\ e.rec.context = SubSeq(e.content, start + 1, end)
             /\ e.rec.match = SubSeq(e.content, off + 1, off + len)

\* the coordinator's search takes one loop iteration on a state below the
\* depth limit, and the iteration neither panics nor leaves the model
ExpandsHead ==
    /\ pc[0] = "visit" /\ queue[0] # << >>
    /\ dequeued'[0] = dequeued[0] + 1
    /\ Head(queue[0]).depth < cfg.depth
    /\ ~dying'[0] /\ pc'[0] # "unmodelled"

\* the states that iteration has appended to the queue
Appended == SubSeq(queue'[0], Len(queue[0]), Len(queue'[0]))

\* the iteration has enqueued (out, applied ++ [name], depth + 1) for name
EnqueuedFor(name) ==
    LET s == Head(queue[0])
    IN  \E i \in 1..Len(Appended) :
          Appended[i] = [content |-> Decode(name, s.content).out,
                         appliedDecoders |-> Append(s.appliedDecoders, name),
                         depth |-> s.depth + 1]

C24_WorkersExit ==
    pc[0] = "returned" =>
      closed /\ \A w \in Workers : w <= cfg.workers => pc[w] = "exited"

\* C25: a file that both gates would reject is rejected by the entropy gate,
\* which is evaluated before the magic gate: its skip diagnostic is the
\* entropy one
C25_EntropyFirst ==
    \A r \in processed :
      (/\ Lookup(env.fs, cfg.paths[r.idx]).readable
       /\ ~ReachesEntropyGate(r.idx)
       /\ ~EntropyAdmits(r.idx))
        => r.skip = "entropy"

\* C27: for a fixed input, pattern and depth the multiset of emitted (chain,
\* offset, match) records is the same for every iteration order of the
\* registry, and two orders differ only by a permutation of records whose
\* chains have equal length
C27_OrderIndependent ==
    (decName = "Run" /\ (crashed \/ pc[0] = "returned")) =>
      /\ SameRecords(decRes, Triples)
      /\ \A i \in 1..Len(decRes) : Len(decRes[i][1]) = Len(Triples[i][1])

\* the positions of the path list that name a regular file
RegularAt == {i \in 1..Len(cfg.paths) :
                cfg.paths[i] # "-" /\ env.fs[cfg.paths[i]].kind = "file"}

\* the first of them
FirstRegular == CHOOSE i \in RegularAt : \A j \in RegularAt : i <= j

\* C28: with a worker count of 0 or below and at least one regular file to
\* enumerate, no worker ever receives from the file channel, Run never
\* returns, and the run comes to a halt only with the coordinator blocked
\* on the send of the first regular file
C28_NoWorkersBlocks ==
    (cfg.workers <= 0 /\ RegularAt # {}) =>
      /\ received = << >>
      /\ \A w \in Workers : pc[w] = "none"
      /\ pc[0] # "returned"
      /\ pc[0] = "send" => (pathIdx = FirstRegular /\ offered = cfg.paths[FirstRegular])
      /\ ~CanStep => pc[0] = "send"

\* with no worker started the coordinator has searched standard input and
\* is blocked on the send of f1, and nothing can take a step
C28_Witness ==
    /\ cfg.workers <= 0 /\ cfg.paths = << "-", "f1" >>
    /\ pc[0] = "send" /\ offered = "f1" /\ history # {}
    /\ ~CanStep

\* C29: after any sequence of key events, with any page size >= 1, the
\* selection satisfies 0 <= currentIndex <= max(len(filteredIdx) - 1, 0),
\* every element of filteredIdx is a valid index into matches, and neither
\* render nor the expand/copy/open actions index out of range.
C29_SelectionInRange ==
    decName = "tui" =>
        /\ 0 <= tui.currentIndex
        /\ tui.currentIndex <= Max2(Len(tui.filteredIdx) - 1, 0)
        /\ \A i \in 1..Len(tui.filteredIdx) : InRange(tui.matches, tui.filteredIdx[i])
        /\ tui.pageSize >= 1
        /\ ~tui.panic

\* C29 witness: a filter that keeps one of three matches is in force, the
\* page holds one item and the selection sits on the last filtered item.
C29_Witness ==
    /\ decName = "tui"
    /\ Len(tui.matches) = 3
    /\ Len(tui.filteredIdx) = 1
    /\ tui.filteredIdx[1] = 2
    /\ tui.pageSize = 1
    /\ tui.currentIndex = Len(tui.filteredIdx) - 1
    /\ ~tui.searchMode

\* the list a filter on query leaves: all indices for the empty query
FilterOf(list, query) ==
    IF query = << >> THEN AllIndices(list)
    ELSE FilterFrom(list, ToLower(query), 0)

\* C30: whenever the TUI is not in search mode, filteredIdx is exactly the
\* increasing list of the indices of the matches whose file, match or context
\* contains searchQuery case-insensitively (all matches for the empty query).
C30_ViewMatchesQuery ==
    (decName = "tui" /\ ~tui.searchMode) =>
        tui.filteredIdx = FilterOf(tui.matches, tui.searchQuery)

====
